---- MODULE Spec2Model ----
(***************************************************************************)
(* Model of the Java indexing and query engine of progctx-mcp:             *)
(*   context/search/java_search_utils.py   (discovery, parsing, rendering) *)
(*   context/search/java_search_manager.py (index construction, queries)   *)
(*                                                                         *)
(* Strings on which the code works character by character (paths, file    *)
(* contents, snippets) are sequences of one-character strings.  Names of   *)
(* classes and methods are only ever compared for equality and are TLA+    *)
(* strings.  A Python dict is a sequence of [k, v] records in insertion    *)
(* order.  The javalang parser is an external library: what it returns for *)
(* a file (failure, or the declarations in walk order) is part of the      *)
(* file's description.                                                     *)
(***************************************************************************)
EXTENDS Integers, Sequences, FiniteSets, TLC

VARIABLES
    project_path,        \* JavaSearchManager.project_path
    disk,                \* the .java files of the tree, as the directories enumerate them
    pc,                  \* "new" | "indexing" | "built" | "ready"
    java_files,          \* _build_java_index: java_files
    pos,                 \* _build_java_index: position of the for loop in java_files
    b_class_index,       \* _build_java_index: local class_index
    b_class_method_index,\* _build_java_index: local class_method_index
    b_method_index,      \* _build_java_index: local method_index
    parsed_java_files,   \* _build_java_index: local parsed_java_files
    failed_count,        \* _build_java_index: local failed_count
    class_index,         \* self.class_index
    class_method_index,  \* self.class_method_index
    method_index,        \* self.method_index
    parsed_files,        \* self.parsed_files
    lost,                \* the files that stopped being readable since construction
    last                 \* the last query and what it returned

vars == <<project_path, disk, pc, java_files, pos, b_class_index,
          b_class_method_index, b_method_index, parsed_java_files, failed_count,
          class_index, class_method_index, method_index, parsed_files, lost,
          last>>

build_vars == <<java_files, pos, b_class_index, b_class_method_index,
                b_method_index, parsed_java_files, failed_count>>

self_vars == <<class_index, class_method_index, method_index, parsed_files>>

-----------------------------------------------------------------------------
(* Bounds *)

\* the largest number of .java files the project tree holds
MaxFiles == 3

\* Python's None
None == "<None>"

-----------------------------------------------------------------------------
(* Sequences and strings *)

RECURSIVE Concat(_)
\* "".join(parts) for a sequence of sequences
Concat(parts) ==
    IF parts = <<>> THEN <<>> ELSE Head(parts) \o Concat(Tail(parts))

RECURSIVE JoinWith(_, _)
\* sep.join(parts)
JoinWith(sep, parts) ==
    IF parts = <<>> THEN <<>>
    ELSE IF Len(parts) = 1 THEN Head(parts)
    ELSE Head(parts) \o sep \o JoinWith(sep, Tail(parts))

\* s[a:b] of Python for 0 <= a, 0 <= b (0-based, b excluded, clipped to the length)
Slice(s, a, b) ==
    LET hi == IF b > Len(s) THEN Len(s) ELSE b
    IN  IF a >= hi THEN <<>> ELSE SubSeq(s, a + 1, hi)

\* s.endswith(suffix)
EndsWith(s, suffix) ==
    /\ Len(suffix) <= Len(s)
    /\ SubSeq(s, Len(s) - Len(suffix) + 1, Len(s)) = suffix

\* part in s (substring test)
Contains(s, part) ==
    \E k \in 0..(Len(s) - Len(part)) : SubSeq(s, k + 1, k + Len(part)) = part

\* the elements of a sequence
Range(s) == {s[k] : k \in 1..Len(s)}

\* x in s for a list s
InList(x, s) == \E k \in 1..Len(s) : s[k] = x

RECURSIVE SplitLinesFrom(_, _)
\* the lines of text, cur being the line read so far; no terminators kept and no
\* empty last line after a final newline (str.splitlines)
SplitLinesFrom(text, cur) ==
    IF text = <<>> THEN (IF cur = <<>> THEN <<>> ELSE <<cur>>)
    ELSE IF Head(text) = "\n" THEN <<cur>> \o SplitLinesFrom(Tail(text), <<>>)
    ELSE SplitLinesFrom(Tail(text), Append(cur, Head(text)))

\* content.splitlines()
SplitLines(text) == SplitLinesFrom(text, <<>>)

RECURSIVE ReadLinesFrom(_, _)
\* the lines of text with their terminators kept (f.readlines())
ReadLinesFrom(text, cur) ==
    IF text = <<>> THEN (IF cur = <<>> THEN <<>> ELSE <<cur>>)
    ELSE IF Head(text) = "\n"
         THEN <<Append(cur, "\n")>> \o ReadLinesFrom(Tail(text), <<>>)
    ELSE ReadLinesFrom(Tail(text), Append(cur, Head(text)))

\* f.readlines()
ReadLines(text) == ReadLinesFrom(text, <<>>)

-----------------------------------------------------------------------------
(* Python dicts, as sequences of [k, v] in insertion order *)

\* k in d
HasKey(d, k) == \E n \in 1..Len(d) : d[n].k = k

\* d[k] for a key of d
Get(d, k) == d[CHOOSE n \in 1..Len(d) : d[n].k = k].v

\* d[k] = v: the value is replaced where the key stands, a new key goes last
Put(d, k, v) ==
    IF HasKey(d, k)
    THEN [n \in 1..Len(d) |-> IF d[n].k = k THEN [k |-> k, v |-> v] ELSE d[n]]
    ELSE Append(d, [k |-> k, v |-> v])

\* d[k] of a defaultdict: reading a missing key inserts the default
Touch(d, k, default) == IF HasKey(d, k) THEN d ELSE Put(d, k, default)

\* d[k].append(x) on a defaultdict(list)
AppendAt(d, k, x) ==
    LET t == Touch(d, k, <<>>) IN Put(t, k, Append(Get(t, k), x))

\* d[c][m].append(x) on a defaultdict(lambda: defaultdict(list))
AppendAt2(d, c, m, x) ==
    LET t == Touch(d, c, <<>>) IN Put(t, c, AppendAt(Get(t, c), m, x))

RECURSIVE Update(_, _)
\* d.update(e)
Update(d, e) ==
    IF e = <<>> THEN d ELSE Update(Put(d, Head(e).k, Head(e).v), Tail(e))

\* the keys of d in iteration order
Keys(d) == [n \in 1..Len(d) |-> d[n].k]

-----------------------------------------------------------------------------
(* The project tree: the files the model draws from *)

\* os.path.join(dir_path, "**/*.java"): the extension glob matches on
JavaExt == <<".", "j", "a", "v", "a">>

\* root directories an engine is constructed on: the whole tree, the directory a
\* of it named without and with a trailing separator, the directory out of it
Roots ==
    { <<"/", "r">>,
      <<"/", "r", "/", "a">>,
      <<"/", "r", "/", "a", "/">>,
      <<"/", "r", "/", "o", "u", "t">> }

\* a member of a declaration's body as javalang reports it: line 0 stands for a
\* member without position; kind is "method", "constructor", "field" or "type"
Member(name, kind, line, body) ==
    [name |-> name, kind |-> kind, line |-> line, body |-> body, throws |-> <<>>]

\* a method or constructor with a throws clause: javalang gives member.throws as
\* the list of the exception names, each a plain string
Throwing(name, kind, line, body, throws) ==
    [name |-> name, kind |-> kind, line |-> line, body |-> body, throws |-> throws]

\* a class, interface or enum declaration as javalang reports it
Decl(name, kind, line, body) ==
    [name |-> name, kind |-> kind, line |-> line, body |-> body]

\* the text of a file whose lines are given, every line ended by a newline
Text(lines) == Concat([n \in 1..Len(lines) |-> Append(lines[n], "\n")])

FooA ==
    [path |-> <<"/", "r", "/", "a", "/", "F", "o", "o">> \o JavaExt,
     readable |-> TRUE, parse |-> "ok",
     text |-> Text(<< <<"c", "F", "{">>,
                      <<"b", "(", ")", "{">>,
                      <<"x">>,
                      <<"}">>,
                      <<"b", "(", "i", ")", "{", "x", "}">>,
                      <<"F", "(", ")", "{", "}">>,
                      <<"}">> >>),
     decls |-> << Decl("Foo", "class", 1,
                       << Member("bar", "method", 2, TRUE),
                          Member("bar", "method", 5, TRUE),
                          Member("Foo", "constructor", 6, TRUE) >>) >>]

FooB ==
    [path |-> <<"/", "r", "/", "b", "/", "F", "o", "o">> \o JavaExt,
     readable |-> TRUE, parse |-> "ok",
     text |-> Text(<< <<"c", "F", "{">>,
                      <<"b", "(", ")", "{", "x", ";", "x", "}">>,
                      <<"}">>,
                      <<"i", "A", "{">>,
                      <<"r", "(", ")", "t", "E", ";">>,
                      <<"}">>,
                      <<"e", "M", "{", "O", ";">>,
                      <<"l", "(", ")", "{", "}">>,
                      <<"}">> >>),
     decls |-> << Decl("Foo", "class", 1,
                       << Member("bar", "method", 2, TRUE) >>),
                  Decl("Api", "interface", 4,
                       << Throwing("run", "method", 5, FALSE, <<"E">>) >>),
                  Decl("Mode", "enum", 7,
                       << Member("ON", "constant", 7, FALSE),
                          Member("label", "method", 8, TRUE) >>) >>]

\* two nested classes of the same name in one file
Two ==
    [path |-> <<"/", "r", "/", "a", "/", "T", "w", "o">> \o JavaExt,
     readable |-> TRUE, parse |-> "ok",
     text |-> Text(<< <<"c", "A", "{">>,
                      <<"c", "I", "{">>,
                      <<"f", "(", ")", "{", "}">>,
                      <<"}", "}">>,
                      <<"c", "B", "{">>,
                      <<"c", "I", "{">>,
                      <<"z", "(", ")", "{", "x", "}">>,
                      <<"}", "}">> >>),
     decls |-> << Decl("A", "class", 1, << Member("Inner", "type", 2, TRUE) >>),
                  Decl("Inner", "class", 2, << Member("foo", "method", 3, TRUE) >>),
                  Decl("B", "class", 5, << Member("Inner", "type", 6, TRUE) >>),
                  Decl("Inner", "class", 6, << Member("baz", "method", 7, TRUE) >>) >>]

\* a file javalang rejects, before and after the package/import lines are removed
Bad ==
    [path |-> <<"/", "r", "/", "a", "/", "B", "a", "d">> \o JavaExt,
     readable |-> TRUE, parse |-> "fail",
     text |-> Text(<< <<"c", "F", "{">>, <<"x">> >>),
     decls |-> <<>>]

\* a file open() fails on, under a directory of another toolchain
Unread ==
    [path |-> <<"/", "r", "/", "b", "/", "n", "o", "d", "e", "_", "m", "o", "d", "u",
                 "l", "e", "s", "/", "U", "n">> \o JavaExt,
     readable |-> FALSE, parse |-> "ok",
     text |-> <<>>,
     decls |-> <<>>]

\* a file javalang accepts only once its first line (the package line) is
\* removed: the declarations carry the lines of the cleaned text
Shapes ==
    [path |-> <<"/", "r", "/", "c", "/", "S", "h">> \o JavaExt,
     readable |-> TRUE, parse |-> "recovered",
     text |-> Text(<< <<"p", "a", "c", "k", "a", "g", "e", " ", "1", ";">>,
                      <<"e", "C", "{", "R", ";">>,
                      <<"}">>,
                      <<"i", "S", "{">>,
                      <<"a", "(", ")", ";">>,
                      <<"}">> >>),
     decls |-> << Decl("Color", "enum", 1, <<>>),
                  Decl("Shape", "interface", 3,
                       << Member("area", "method", 4, FALSE) >>) >>]

\* four overloads in one class, and a second class of the same name before it
Many ==
    [path |-> <<"/", "r", "/", "c", "/", "m", "/", "M", "a", "n", "y">> \o JavaExt,
     readable |-> TRUE, parse |-> "ok",
     text |-> Text(<< <<"c", "H", "{">>,
                      <<"c", "F", "{", "}">>,
                      <<"}">>,
                      <<"c", "F", "{">>,
                      <<"b", "(", ")", "{", "}">>,
                      <<"b", "(", "i", ")", "{", "}">>,
                      <<"b", "(", "j", ")", "{", "x", "}">>,
                      <<"b", "(", "k", ")", "t", "E", "{", "}">>,
                      <<"}">> >>),
     decls |-> << Decl("Holder", "class", 1, << Member("Foo", "type", 2, TRUE) >>),
                  Decl("Foo", "class", 2, <<>>),
                  Decl("Foo", "class", 4,
                       << Member("bar", "method", 5, TRUE),
                          Member("bar", "method", 6, TRUE),
                          Member("bar", "method", 7, TRUE),
                          Throwing("bar", "method", 8, TRUE, <<"E">>) >>) >>]

\* a file under a build-artifact directory; its last line has no terminator
OutX ==
    [path |-> <<"/", "r", "/", "o", "u", "t", "/", "F", "o", "o">> \o JavaExt,
     readable |-> TRUE, parse |-> "ok",
     text |-> Text(<< <<"c", "X", "{">> >>) \o <<"}">>,
     decls |-> << Decl("X", "class", 1, <<>>) >>]

\* a file under a directory whose name starts with a dot
Hid ==
    [path |-> <<"/", "r", "/", ".", "m", "/", "H">> \o JavaExt,
     readable |-> TRUE, parse |-> "ok",
     text |-> Text(<< <<"c", "H", "{", "}">> >>),
     decls |-> << Decl("Hid", "class", 1, <<>>) >>]

\* the files a project tree may hold, in path order
Universe == <<FooA, Bad, Two, FooB, Unread, Many, Shapes, OutX, Hid>>

\* the file at a path
FileAt(path) == CHOOSE f \in Range(Universe) : f.path = path

\* open(file_path) succeeds
Readable(file_path) == FileAt(file_path).readable /\ file_path \notin lost

RECURSIVE Ascending(_)
\* the paths of the files numbered in S, in path order
Ascending(S) ==
    IF S = {} THEN <<>>
    ELSE LET n == CHOOSE x \in S : \A y \in S : x <= y
         IN  <<Universe[n].path>> \o Ascending(S \ {n})

\* s reversed
Reverse(s) == [n \in 1..Len(s) |-> s[Len(s) + 1 - n]]

\* the .java files a tree may hold: at most MaxFiles files of the universe, as the
\* directory enumeration yields them, in path order or in the opposite order
Listings ==
    LET chosen == {S \in SUBSET (1..Len(Universe)) : Cardinality(S) <= MaxFiles}
    IN  {Ascending(S) : S \in chosen} \cup {Reverse(Ascending(S)) : S \in chosen}

\* file lies in the tree of the directory root
Under(file, root) ==
    LET dir == IF root[Len(root)] = "/" THEN root ELSE Append(root, "/")
    IN  Len(file) > Len(dir) /\ SubSeq(file, 1, Len(dir)) = dir

\* the listings of the tree of the directory root
ListingsUnder(root) == {listing \in Listings : \A file \in Range(listing) : Under(file, root)}

-----------------------------------------------------------------------------
(* java_search_utils.py: discovery and parsing *)

RECURSIVE SplitPathFrom(_, _)
\* the segments of a path, cur being the segment read so far
SplitPathFrom(path, cur) ==
    IF path = <<>> THEN (IF cur = <<>> THEN <<>> ELSE <<cur>>)
    ELSE IF Head(path) = "/"
         THEN (IF cur = <<>> THEN <<>> ELSE <<cur>>) \o SplitPathFrom(Tail(path), <<>>)
    ELSE SplitPathFrom(Tail(path), Append(cur, Head(path)))

\* the names of the directories and of the file on the way from the root to a file
Segments(file_path, root) ==
    SplitPathFrom(Slice(file_path, Len(root), Len(file_path)), <<>>)

\* excluded_dirs of find_java_files
ExcludedDirs ==
    { <<"b", "u", "i", "l", "d">>,
      <<"t", "a", "r", "g", "e", "t">>,
      <<"b", "i", "n">>,
      <<"o", "u", "t">>,
      <<"t", "e", "s", "t", "-", "d", "a", "t", "a">>,
      <<"g", "e", "n", "e", "r", "a", "t", "e", "d">> }

\* the test find_java_files keeps a globbed file on
NotExcluded(file) == ~ \E part \in ExcludedDirs : Contains(file, part)

\* glob.glob(pjoin(dir_path, "**/*.java"), recursive=True) on a tree holding the
\* files of listing: ** does not enter a directory whose name starts with a dot,
\* and * does not match a file name that starts with one
Glob(listing, dir_path) ==
    SelectSeq(listing, LAMBDA file : \A name \in Range(Segments(file, dir_path)) :
                                        Head(name) # ".")

\* find_java_files(dir_path) on a tree holding the files of listing
FindJavaFiles(listing, dir_path) == SelectSeq(Glob(listing, dir_path), NotExcluded)

\* the larger of two line numbers
Max(a, b) == IF a >= b THEN a ELSE b

RECURSIVE MaxMemberLine(_, _)
\* the loop that raises class_end_line to the line of every positioned member
MaxMemberLine(body, acc) ==
    IF body = <<>> THEN acc
    ELSE MaxMemberLine(Tail(body),
                       IF Head(body).line # 0 THEN Max(acc, Head(body).line) ELSE acc)

\* one (name, start, end) tuple of parse_java_file
Triple(name, start, end) == [name |-> name, start |-> start, end |-> end]

RECURSIVE ClassMethods(_, _)
\* the tuples a ClassDeclaration's members add to class_to_methods[class_name]
ClassMethods(body, class_start_line) ==
    IF body = <<>> THEN <<>>
    ELSE LET m == Head(body)
             method_start_line == IF m.line # 0 THEN m.line ELSE class_start_line
             rest == ClassMethods(Tail(body), class_start_line)
         IN  IF m.kind = "method"
             THEN <<Triple(m.name, method_start_line,
                           method_start_line + (IF m.body THEN 20 ELSE 10))>> \o rest
             ELSE IF m.kind = "constructor"
             THEN <<Triple(m.name, method_start_line, method_start_line + 10)>> \o rest
             ELSE rest

RECURSIVE InterfaceMethods(_, _)
\* the tuples an InterfaceDeclaration's members add to class_to_methods[class_name]
InterfaceMethods(body, class_start_line) ==
    IF body = <<>> THEN <<>>
    ELSE LET m == Head(body)
             method_start_line == IF m.line # 0 THEN m.line ELSE class_start_line
             rest == InterfaceMethods(Tail(body), class_start_line)
         IN  IF m.kind = "method"
             THEN <<Triple(m.name, method_start_line, method_start_line + 5)>> \o rest
             ELSE rest

\* the methods parse_java_file records for one declaration
DeclMethods(d, class_start_line) ==
    IF d.kind = "class" THEN ClassMethods(d.body, class_start_line)
    ELSE IF d.kind = "interface" THEN InterfaceMethods(d.body, class_start_line)
    ELSE <<>>

\* class_end_line of one declaration in a file of nlines lines
ClassEndLine(d, class_start_line, nlines) ==
    IF d.kind = "class"
    THEN LET e == MaxMemberLine(d.body, class_start_line)
         IN  IF e = class_start_line THEN nlines ELSE e
    ELSE nlines

RECURSIVE WalkDecls(_, _, _)
\* the loop over the tree: acc is (classes, class_to_methods) so far
WalkDecls(decls, nlines, acc) ==
    IF decls = <<>> THEN acc
    ELSE LET d == Head(decls)
             class_start_line == IF d.line # 0 THEN d.line ELSE 1
             class_end_line == ClassEndLine(d, class_start_line, nlines)
         IN  WalkDecls(Tail(decls), nlines,
                 [classes |-> Append(acc.classes,
                                     Triple(d.name, class_start_line, class_end_line)),
                  class_to_methods |->
                      Put(acc.class_to_methods, d.name,
                          DeclMethods(d, class_start_line))])

\* the None parse_java_file returns for a file it could not read or parse
NoInfo == [parsed |-> FALSE]

\* parse_java_file returning an empty result where it should return None
ParseJavaFile_EmptyForNone(file_path) ==
    LET f == FileAt(file_path)
    IN  IF ~Readable(file_path) \/ f.parse = "fail"
        THEN [parsed |-> TRUE, classes |-> <<>>, class_to_methods |-> <<>>,
              top_level_methods |-> <<>>]
        ELSE LET w == WalkDecls(f.decls, Len(SplitLines(f.text)),
                                [classes |-> <<>>, class_to_methods |-> <<>>])
             IN  [parsed |-> TRUE,
                  classes |-> w.classes,
                  class_to_methods |-> w.class_to_methods,
                  top_level_methods |-> <<>>]

\* parse_java_file(file_path): None, or (classes, class_to_methods, top_level_methods)
ParseJavaFile(file_path) ==
    LET f == FileAt(file_path)
    IN  IF ~Readable(file_path) THEN NoInfo
        ELSE IF f.parse = "fail" THEN NoInfo
        ELSE LET w == WalkDecls(f.decls, Len(SplitLines(f.text)),
                                [classes |-> <<>>, class_to_methods |-> <<>>])
             IN  [parsed |-> TRUE,
                  classes |-> w.classes,
                  class_to_methods |-> w.class_to_methods,
                  top_level_methods |-> <<>>]

-----------------------------------------------------------------------------
(* java_search_manager.py: index construction *)

\* LineRange(start, end)
LineRange(start, end) == [start |-> start, end |-> end]

\* one (file_name, line_range) entry of an index
Entry(file, start, end) == [file |-> file, range |-> LineRange(start, end)]

RECURSIVE AddClasses_FirstOnly(_, _, _)
\* (1) recording the first declaration of a file only
AddClasses_FirstOnly(index, classes, java_file) ==
    IF classes = <<>> THEN index
    ELSE AppendAt(index, Head(classes).name,
                  Entry(java_file, Head(classes).start, Head(classes).end))


RECURSIVE AddClasses(_, _, _)
\* (1) build class index
AddClasses(index, classes, java_file) ==
    IF classes = <<>> THEN index
    ELSE AddClasses(AppendAt(index, Head(classes).name,
                             Entry(java_file, Head(classes).start, Head(classes).end)),
                    Tail(classes), java_file)

RECURSIVE AddMethodsOf(_, _, _, _)
\* the inner loop of (2): the methods recorded for class c
AddMethodsOf(index, c, class_methods, java_file) ==
    IF class_methods = <<>> THEN index
    ELSE LET m == Head(class_methods)
         IN  AddMethodsOf(AppendAt2(index, c, m.name, Entry(java_file, m.start, m.end)),
                          c, Tail(class_methods), java_file)

RECURSIVE AddClassMethods(_, _, _)
\* (2) build class-method index
AddClassMethods(index, class_to_methods, java_file) ==
    IF class_to_methods = <<>> THEN index
    ELSE AddClassMethods(AddMethodsOf(index, Head(class_to_methods).k,
                                      Head(class_to_methods).v, java_file),
                         Tail(class_to_methods), java_file)

RECURSIVE AddTopLevel(_, _, _)
\* (3) build (top-level) method index
AddTopLevel(index, top_level_methods, java_file) ==
    IF top_level_methods = <<>> THEN index
    ELSE LET m == Head(top_level_methods)
         IN  AddTopLevel(AppendAt(index, m.name, Entry(java_file, m.start, m.end)),
                         Tail(top_level_methods), java_file)

\* whether the loop of _build_java_index takes a file into the indices
Indexable(file_info) == file_info # NoInfo

\* no query has been answered yet
NoQuery == [op |-> "none"]

Init ==
    /\ project_path \in Roots
    /\ disk \in ListingsUnder(project_path)
    /\ pc = "new"
    /\ java_files = <<>>
    /\ pos = 1
    /\ b_class_index = <<>>
    /\ b_class_method_index = <<>>
    /\ b_method_index = <<>>
    /\ parsed_java_files = <<>>
    /\ failed_count = 0
    /\ class_index = <<>>
    /\ class_method_index = <<>>
    /\ method_index = <<>>
    /\ parsed_files = <<>>
    /\ lost = {}
    /\ last = NoQuery

\* _build_java_index up to the loop: the files are discovered
Discover ==
    /\ pc = "new"
    /\ java_files' = FindJavaFiles(disk, project_path)
    /\ pc' = "indexing"
    /\ UNCHANGED <<project_path, disk, pos, b_class_index, b_class_method_index,
                   b_method_index, parsed_java_files, failed_count, self_vars, lost,
                   last>>

\* one iteration of the loop of _build_java_index
IndexFile ==
    /\ pc = "indexing"
    /\ pos <= Len(java_files)
    /\ LET java_file == java_files[pos]
           file_info == ParseJavaFile(java_file)
       IN  IF ~Indexable(file_info)
           THEN /\ failed_count' = failed_count + 1
                /\ UNCHANGED <<b_class_index, b_class_method_index, b_method_index,
                               parsed_java_files>>
           ELSE /\ parsed_java_files' = Append(parsed_java_files, java_file)
                /\ b_class_index' =
                       AddClasses(b_class_index, file_info.classes, java_file)
                /\ b_class_method_index' =
                       AddClassMethods(b_class_method_index,
                                       file_info.class_to_methods, java_file)
                /\ b_method_index' =
                       AddTopLevel(b_method_index, file_info.top_level_methods,
                                   java_file)
                /\ UNCHANGED failed_count
    /\ pos' = pos + 1
    /\ UNCHANGED <<project_path, disk, pc, java_files, self_vars, lost, last>>

\* the return of _build_java_index and _update_indices
UpdateIndices ==
    /\ pc = "indexing"
    /\ pos > Len(java_files)
    /\ class_index' = Update(class_index, b_class_index)
    /\ class_method_index' = Update(class_method_index, b_class_method_index)
    /\ method_index' = Update(method_index, b_method_index)
    /\ parsed_files' = parsed_files \o parsed_java_files
    /\ pc' = "ready"
    /\ UNCHANGED <<project_path, disk, build_vars, lost, last>>

-----------------------------------------------------------------------------
(* java_search_utils.py: results and their rendering *)

\* RESULT_SHOW_LIMIT
RESULT_SHOW_LIMIT == 3

\* JavaSearchResult(file_path, class_name, method_name, code)
JavaSearchResult(file_path, class_name, method_name, code) ==
    [file_path |-> file_path, class_name |-> class_name,
     method_name |-> method_name, code |-> code]

\* the path inside the <file> tag: file_path[len(project_root) + 1:]
RelPath(file_path, project_root) ==
    Slice(file_path, Len(project_root) + 1, Len(file_path))

\* JavaSearchResult.to_tagged_str: the <file>, <class>, <method> and <code> tags of
\* one result (None for a tag that is left out)
ToTaggedStr(res, project_root) ==
    [file |-> RelPath(res.file_path, project_root),
     class |-> res.class_name,
     method |-> res.method_name,
     code |-> res.code]

RECURSIVE CountByKey(_, _)
\* the counting loop of the collapse functions: keys is the key of every result
CountByKey(keys, counts) ==
    IF keys = <<>> THEN counts
    ELSE CountByKey(Tail(keys),
                    Put(counts, Head(keys),
                        (IF HasKey(counts, Head(keys)) THEN Get(counts, Head(keys))
                         ELSE 0) + 1))

\* JavaSearchResult.collapse_to_file_level: one "- <file>..</file> (n matches)" line
\* per file
CollapseToFileLevel(results, project_root) ==
    LET file_counts ==
            CountByKey([n \in 1..Len(results) |-> results[n].file_path], <<>>)
    IN  [n \in 1..Len(file_counts) |->
            [file |-> RelPath(file_counts[n].k, project_root),
             method |-> None,
             count |-> file_counts[n].v]]

\* JavaSearchResult.collapse_to_method_level: one line per (file, method)
CollapseToMethodLevel(results, project_root) ==
    LET summary_dict ==
            CountByKey([n \in 1..Len(results) |->
                           <<results[n].file_path,
                             IF results[n].method_name # None
                             THEN results[n].method_name ELSE "Not in a method">>],
                       <<>>)
    IN  [n \in 1..Len(summary_dict) |->
            [file |-> RelPath(summary_dict[n].k[1], project_root),
             method |-> summary_dict[n].k[2],
             count |-> summary_dict[n].v]]

\* the results rendered one by one: "- Search result i:" with the tagged string
RenderAll(results, project_root) ==
    [n \in 1..Len(results) |-> ToTaggedStr(results[n], project_root)]

\* a returned (tool_output, summary, False): message names the text
Failure(message) ==
    [success |-> FALSE, message |-> message, count |-> 0,
     full |-> <<>>, collapsed |-> <<>>, matches |-> <<>>]

\* a returned (tool_output, summary, True): the header "Found n ...", the results
\* rendered in full, the collapsed listing, and the handler's result list
Success(message, matches, full, collapsed) ==
    [success |-> TRUE, message |-> message, count |-> Len(matches),
     full |-> full, collapsed |-> collapsed, matches |-> matches]

-----------------------------------------------------------------------------
(* java_search_utils.py: reading code back from the files *)

\* get_code_snippets with the slice taken as lines[start:end]
GetCodeSnippets_FromStart(file_path, start, end) ==
    LET f == FileAt(file_path)
    IN  IF ~Readable(file_path) THEN <<>>
        ELSE Concat(Slice(ReadLines(f.text), start, end))

\* get_code_snippets(file_path, start, end)
GetCodeSnippets(file_path, start, end) ==
    LET f == FileAt(file_path)
    IN  IF ~Readable(file_path) THEN <<>>
        ELSE Concat(Slice(ReadLines(f.text), start - 1, end))

RECURSIVE SignatureLines(_, _)
\* the while loop of get_class_signature from 0-based line i: the lines up to the
\* first one that holds an opening brace
SignatureLines(lines, i) ==
    IF i >= Len(lines) THEN <<>>
    ELSE IF Contains(lines[i + 1], <<"{">>) THEN <<lines[i + 1]>>
    ELSE <<lines[i + 1]>> \o SignatureLines(lines, i + 1)

\* get_class_signature(file_path, class_name): the file is parsed again, without
\* the recovery of parse_java_file
GetClassSignature(file_path, class_name) ==
    LET f == FileAt(file_path)
        named == SelectSeq(f.decls, LAMBDA d : d.name = class_name)
    IN  IF ~Readable(file_path) THEN <<>>
        ELSE IF f.parse # "ok" THEN <<>>
        ELSE IF named = <<>> THEN <<>>
        ELSE LET start_line == IF named[1].line # 0 THEN named[1].line ELSE 1
             IN  JoinWith(<<"\n">>, SignatureLines(SplitLines(f.text), start_line - 1))

-----------------------------------------------------------------------------
(* java_search_manager.py: the searches behind the queries *)

\* [f for f in self.parsed_files if f.endswith(file_name)]
CandidateFiles(parsed, file_name) ==
    SelectSeq(parsed, LAMBDA f : EndsWith(f, file_name))

\* _search_method_in_class without its test "method_name not in ...": the inner
\* defaultdict is read for a method name it may not hold
SearchMethodInClass_Unguarded(cmi, method_name, class_name) ==
    IF ~HasKey(cmi, class_name) THEN [res |-> <<>>, cmi |-> cmi]
    ELSE LET inner == Touch(Get(cmi, class_name), method_name, <<>>)
             found == Get(inner, method_name)
         IN  [res |-> [n \in 1..Len(found) |->
                          JavaSearchResult(found[n].file, class_name, method_name,
                              GetCodeSnippets(found[n].file, found[n].range.start,
                                              found[n].range.end))],
              cmi |-> Put(cmi, class_name, inner)]

\* _search_method_in_class: the results, and class_method_index as the lookups
\* leave it (its inner dicts are defaultdicts: reading a missing key inserts it)
SearchMethodInClass(cmi, method_name, class_name) ==
    IF ~HasKey(cmi, class_name) THEN [res |-> <<>>, cmi |-> cmi]
    ELSE IF ~HasKey(Get(cmi, class_name), method_name) THEN [res |-> <<>>, cmi |-> cmi]
    ELSE LET inner == Touch(Get(cmi, class_name), method_name, <<>>)
             found == Get(inner, method_name)
         IN  [res |-> [n \in 1..Len(found) |->
                          JavaSearchResult(found[n].file, class_name, method_name,
                              GetCodeSnippets(found[n].file, found[n].range.start,
                                              found[n].range.end))],
              cmi |-> Put(cmi, class_name, inner)]

RECURSIVE SearchClasses(_, _, _, _)
\* the loop of _search_method_in_all_classes over the class names left to visit
SearchClasses(class_names, cmi, method_name, result) ==
    IF class_names = <<>> THEN [res |-> result, cmi |-> cmi]
    ELSE LET r == SearchMethodInClass(cmi, method_name, Head(class_names))
         IN  SearchClasses(Tail(class_names), r.cmi, method_name, result \o r.res)

\* the loop of _search_method_in_all_classes run once per ClassIndex entry instead
\* of once per class name
ClassNamesToVisit_PerEntry(ci) ==
    Concat([n \in 1..Len(ci) |-> [e \in 1..Len(ci[n].v) |-> ci[n].k]])

\* the class names _search_method_in_all_classes visits: for class_name in
\* self.class_index
ClassNamesToVisit(ci) == Keys(ci)

\* _search_method_in_all_classes
SearchMethodInAllClasses(ci, cmi, method_name) ==
    SearchClasses(ClassNamesToVisit(ci), cmi, method_name, <<>>)

\* _search_top_level_method
SearchTopLevelMethod(mi, method_name) ==
    IF ~HasKey(mi, method_name) THEN <<>>
    ELSE LET found == Get(mi, method_name)
         IN  [n \in 1..Len(found) |->
                 JavaSearchResult(found[n].file, None, method_name,
                     GetCodeSnippets(found[n].file, found[n].range.start,
                                     found[n].range.end))]

\* _search_method_in_code_base
SearchMethodInCodeBase(ci, cmi, mi, method_name) ==
    LET top_level_res == SearchTopLevelMethod(mi, method_name)
        class_res == SearchMethodInAllClasses(ci, cmi, method_name)
    IN  [res |-> top_level_res \o class_res.res, cmi |-> class_res.cmi]

-----------------------------------------------------------------------------
(* java_search_manager.py: the query operations.  Each gives the triple it   *)
(* returns (out) and class_method_index as it leaves it (cmi).               *)

\* "class_name not in self.class_index"
ClassIndexed(ci, class_name) == HasKey(ci, class_name)

\* the shared rendering collapsing from RESULT_SHOW_LIMIT matches on, not above it
RenderProjectWide_FromLimit(message, search_res, project_root) ==
    IF Len(search_res) >= RESULT_SHOW_LIMIT
    THEN Success(message, search_res, <<>>,
                 CollapseToFileLevel(search_res, project_root))
    ELSE Success(message, search_res, RenderAll(search_res, project_root), <<>>)

\* the rendering shared by search_class, search_method and search_code: collapsed
\* to files above RESULT_SHOW_LIMIT, in full otherwise
RenderProjectWide(message, search_res, project_root) ==
    IF Len(search_res) > RESULT_SHOW_LIMIT
    THEN Success(message, search_res, <<>>,
                 CollapseToFileLevel(search_res, project_root))
    ELSE Success(message, search_res, RenderAll(search_res, project_root), <<>>)

\* two names that differ at most in the case of their letters
SameIgnoringCase(a, b) == a = b \/ {a, b} = {"Foo", "foo"}

\* search_class looking the name up without regard to case
SearchClass_IgnoreCase(ci, root, class_name) ==
    LET keys == SelectSeq(Keys(ci), LAMBDA k : SameIgnoringCase(k, class_name))
    IN  IF keys = <<>> THEN Failure("Could not find class in the codebase")
        ELSE LET found == Get(ci, keys[1])
                 search_res == [n \in 1..Len(found) |->
                                   JavaSearchResult(found[n].file, class_name, None,
                                       GetClassSignature(found[n].file, class_name))]
             IN  RenderProjectWide("Found classes in the codebase", search_res, root)

\* search_class keeping one result per file
SearchClass_OnePerFile(ci, root, class_name) ==
    IF ~HasKey(ci, class_name) THEN Failure("Could not find class in the codebase")
    ELSE LET all == Get(ci, class_name)
             kept == {n \in 1..Len(all) : \A k \in 1..(n - 1) : all[k].file # all[n].file}
             found == [n \in 1..Cardinality(kept) |->
                          all[CHOOSE x \in kept :
                                  Cardinality({y \in kept : y <= x}) = n]]
             search_res == [n \in 1..Len(found) |->
                               JavaSearchResult(found[n].file, class_name, None,
                                   GetClassSignature(found[n].file, class_name))]
         IN  RenderProjectWide("Found classes in the codebase", search_res, root)

\* search_class(class_name)
SearchClass(ci, root, class_name) ==
    IF ~ClassIndexed(ci, class_name) THEN Failure("Could not find class in the codebase")
    ELSE LET found == Get(ci, class_name)
             search_res == [n \in 1..Len(found) |->
                               JavaSearchResult(found[n].file, class_name, None,
                                   GetClassSignature(found[n].file, class_name))]
         IN  IF search_res = <<>> THEN Failure("Could not find class in the codebase")
             ELSE RenderProjectWide("Found classes in the codebase", search_res, root)

\* search_class_in_file looking only into the first file the name matches
SearchClassInFile_FirstFileOnly(ci, parsed, root, class_name, file_name) ==
    LET candidate_java_abs_paths == CandidateFiles(parsed, file_name)
    IN  IF candidate_java_abs_paths = <<>>
        THEN Failure("Could not find file in the codebase")
        ELSE IF ~HasKey(ci, class_name)
        THEN Failure("Could not find class in the codebase")
        ELSE LET found == SelectSeq(Get(ci, class_name),
                              LAMBDA e : e.file = candidate_java_abs_paths[1])
                 search_res == [n \in 1..Len(found) |->
                                   JavaSearchResult(found[n].file, class_name, None,
                                       GetClassSignature(found[n].file, class_name))]
             IN  IF search_res = <<>> THEN Failure("Could not find class in file")
                 ELSE Success("Found classes in file", search_res,
                              RenderAll(search_res, root), <<>>)

\* search_class_in_file(class_name, file_name)
SearchClassInFile(ci, parsed, root, class_name, file_name) ==
    LET candidate_java_abs_paths == CandidateFiles(parsed, file_name)
    IN  IF candidate_java_abs_paths = <<>>
        THEN Failure("Could not find file in the codebase")
        ELSE IF ~HasKey(ci, class_name)
        THEN Failure("Could not find class in the codebase")
        ELSE LET found == SelectSeq(Get(ci, class_name),
                              LAMBDA e : InList(e.file, candidate_java_abs_paths))
                 search_res == [n \in 1..Len(found) |->
                                   JavaSearchResult(found[n].file, class_name, None,
                                       GetClassSignature(found[n].file, class_name))]
             IN  IF search_res = <<>> THEN Failure("Could not find class in file")
                 ELSE Success("Found classes in file", search_res,
                              RenderAll(search_res, root), <<>>)

\* search_method(method_name)
SearchMethod(ci, cmi, mi, root, method_name) ==
    LET r == SearchMethodInCodeBase(ci, cmi, mi, method_name)
    IN  [out |-> IF r.res = <<>> THEN Failure("Could not find method in the codebase")
                 ELSE RenderProjectWide("Found methods in the codebase", r.res, root),
         cmi |-> r.cmi]

\* search_method_in_class testing the class name against class_method_index
SearchMethodInClassApi_ByMethodIndex(ci, cmi, root, method_name, class_name) ==
    IF ~HasKey(cmi, class_name)
    THEN [out |-> Failure("Could not find class in the codebase"), cmi |-> cmi]
    ELSE LET r == SearchMethodInClass(cmi, method_name, class_name)
             first_few == Slice(r.res, 0, RESULT_SHOW_LIMIT)
             rest == Slice(r.res, RESULT_SHOW_LIMIT, Len(r.res))
         IN  [out |-> IF r.res = <<>> THEN Failure("Could not find method in class")
                      ELSE Success("Found methods in class", r.res,
                                   RenderAll(first_few, root),
                                   IF rest # <<>> THEN CollapseToFileLevel(rest, root)
                                   ELSE <<>>),
              cmi |-> r.cmi]

\* search_method_in_class leaving the first result after the shown ones out of the
\* collapsed listing
SearchMethodInClassApi_RestSkipsOne(ci, cmi, root, method_name, class_name) ==
    IF ~HasKey(ci, class_name)
    THEN [out |-> Failure("Could not find class in the codebase"), cmi |-> cmi]
    ELSE LET r == SearchMethodInClass(cmi, method_name, class_name)
             first_few == Slice(r.res, 0, RESULT_SHOW_LIMIT)
             rest == Slice(r.res, RESULT_SHOW_LIMIT + 1, Len(r.res))
         IN  [out |-> IF r.res = <<>> THEN Failure("Could not find method in class")
                      ELSE Success("Found methods in class", r.res,
                                   RenderAll(first_few, root),
                                   IF rest # <<>> THEN CollapseToFileLevel(rest, root)
                                   ELSE <<>>),
              cmi |-> r.cmi]


\* search_method_in_class(method_name, class_name)
SearchMethodInClassApi(ci, cmi, root, method_name, class_name) ==
    IF ~HasKey(ci, class_name)
    THEN [out |-> Failure("Could not find class in the codebase"), cmi |-> cmi]
    ELSE LET r == SearchMethodInClass(cmi, method_name, class_name)
             first_few == Slice(r.res, 0, RESULT_SHOW_LIMIT)
             rest == Slice(r.res, RESULT_SHOW_LIMIT, Len(r.res))
         IN  [out |-> IF r.res = <<>> THEN Failure("Could not find method in class")
                      ELSE Success("Found methods in class", r.res,
                                   RenderAll(first_few, root),
                                   IF rest # <<>> THEN CollapseToFileLevel(rest, root)
                                   ELSE <<>>),
              cmi |-> r.cmi]

\* search_method_in_file trimming its results as the project-wide searches do
SearchMethodInFile_Trimmed(ci, cmi, mi, parsed, root, method_name, file_name) ==
    LET candidate_java_abs_paths == CandidateFiles(parsed, file_name)
        r == SearchMethodInCodeBase(ci, cmi, mi, method_name)
        filtered_res == SelectSeq(r.res,
                            LAMBDA x : InList(x.file_path, candidate_java_abs_paths))
    IN  IF candidate_java_abs_paths = <<>>
        THEN [out |-> Failure("Could not find file in the codebase"), cmi |-> cmi]
        ELSE [out |-> IF r.res = <<>>
                      THEN Failure("The method does not appear in the codebase")
                      ELSE IF filtered_res = <<>>
                      THEN Failure("There is no method with name in file")
                      ELSE RenderProjectWide("Found methods in file", filtered_res,
                                             root),
              cmi |-> r.cmi]

\* search_method_in_file(method_name, file_name)
SearchMethodInFile(ci, cmi, mi, parsed, root, method_name, file_name) ==
    LET candidate_java_abs_paths == CandidateFiles(parsed, file_name)
        r == SearchMethodInCodeBase(ci, cmi, mi, method_name)
        filtered_res == SelectSeq(r.res,
                            LAMBDA x : InList(x.file_path, candidate_java_abs_paths))
    IN  IF candidate_java_abs_paths = <<>>
        THEN [out |-> Failure("Could not find file in the codebase"), cmi |-> cmi]
        ELSE [out |-> IF r.res = <<>>
                      THEN Failure("The method does not appear in the codebase")
                      ELSE IF filtered_res = <<>>
                      THEN Failure("There is no method with name in file")
                      ELSE Success("Found methods in file", filtered_res,
                                   RenderAll(filtered_res, root), <<>>),
              cmi |-> r.cmi]

-----------------------------------------------------------------------------
(* Code search *)

RECURSIVE Occurrences_FirstOnly(_, _, _)
\* the start offset of the first match only, as re.search would report it
Occurrences_FirstOnly(file_content, code_str, k) ==
    IF k + Len(code_str) > Len(file_content) THEN <<>>
    ELSE IF SubSeq(file_content, k + 1, k + Len(code_str)) = code_str
    THEN <<k>>
    ELSE Occurrences_FirstOnly(file_content, code_str, k + 1)

RECURSIVE Occurrences(_, _, _)
\* re.finditer(re.escape(code_str), file_content): the 0-based offsets of the
\* occurrences of code_str from offset k on, left to right and not overlapping
Occurrences(file_content, code_str, k) ==
    IF k + Len(code_str) > Len(file_content) THEN <<>>
    ELSE IF SubSeq(file_content, k + 1, k + Len(code_str)) = code_str
    THEN <<k>> \o Occurrences(file_content, code_str, k + Max(Len(code_str), 1))
    ELSE Occurrences(file_content, code_str, k + 1)

\* file_content.count("\n", 0, k)
NewlinesBefore(file_content, k) ==
    Cardinality({n \in 1..k : file_content[n] = "\n"})

\* get_code_region_containing_code with the window taken around the 1-based
\* line number instead of the 0-based one
GetCodeRegionContainingCode_WindowShifted(file_path, code_str) ==
    LET f == FileAt(file_path)
        file_lines == SplitLines(f.text)
        found == Occurrences(f.text, code_str, 0)
    IN  IF ~Readable(file_path) THEN <<>>
        ELSE [n \in 1..Len(found) |->
                 LET start_line == NewlinesBefore(f.text, found[n])
                 IN  [start_line |-> start_line,
                      context |-> JoinWith(<<"\n">>,
                                     Slice(file_lines, Max(0, start_line + 1 - 5),
                                           start_line + 1 + 6))]]

\* get_code_region_containing_code(file_path, code_str): (start_line, context) of
\* every occurrence
GetCodeRegionContainingCode(file_path, code_str) ==
    LET f == FileAt(file_path)
        file_lines == SplitLines(f.text)
        found == Occurrences(f.text, code_str, 0)
    IN  IF ~Readable(file_path) THEN <<>>
        ELSE [n \in 1..Len(found) |->
                 LET start_line == NewlinesBefore(f.text, found[n])
                 IN  [start_line |-> start_line,
                      context |-> JoinWith(<<"\n">>,
                                     Slice(file_lines, Max(0, start_line - 5),
                                           start_line + 6))]]

\* the (class, method, entry) triples of class_method_index in iteration order
MethodEntries(cmi) ==
    Concat([c \in 1..Len(cmi) |->
        Concat([m \in 1..Len(cmi[c].v) |->
            [e \in 1..Len(cmi[c].v[m].v) |->
                [class_name |-> cmi[c].k, method_name |-> cmi[c].v[m].k,
                 file |-> cmi[c].v[m].v[e].file,
                 range |-> cmi[c].v[m].v[e].range]]])])

\* the (method, entry) pairs of method_index in iteration order
TopLevelEntries(mi) ==
    Concat([m \in 1..Len(mi) |->
        [e \in 1..Len(mi[m].v) |->
            [class_name |-> None, method_name |-> mi[m].k,
             file |-> mi[m].v[e].file, range |-> mi[m].v[e].range]]])

\* "file_name == file_path and line_range.start <= line_no <= line_range.end"
LineInEntry(e, file_path, line_no) ==
    e.file = file_path /\ e.range.start <= line_no /\ line_no <= e.range.end

\* file_line_to_class_and_method(file_path, line_no)
FileLineToClassAndMethod(cmi, mi, file_path, line_no) ==
    LET hits == SelectSeq(MethodEntries(cmi) \o TopLevelEntries(mi),
                          LAMBDA e : LineInEntry(e, file_path, line_no))
    IN  IF hits = <<>> THEN [class_name |-> None, method_name |-> None]
        ELSE [class_name |-> hits[1].class_name, method_name |-> hits[1].method_name]

\* the results search_code and search_code_in_file collect in one file
CodeResultsInFile(cmi, mi, file_path, code_str) ==
    LET searched == GetCodeRegionContainingCode(file_path, code_str)
    IN  [n \in 1..Len(searched) |->
            LET cm == FileLineToClassAndMethod(cmi, mi, file_path,
                                               searched[n].start_line)
            IN  JavaSearchResult(file_path, cm.class_name, cm.method_name,
                                 searched[n].context)]

\* the results search_code and search_code_in_file collect over a list of files
CodeResults(cmi, mi, files, code_str) ==
    Concat([n \in 1..Len(files) |-> CodeResultsInFile(cmi, mi, files[n], code_str)])

\* search_code(code_str)
SearchCode(cmi, mi, parsed, root, code_str) ==
    LET all_search_results == CodeResults(cmi, mi, parsed, code_str)
    IN  IF all_search_results = <<>> THEN Failure("Could not find code in the codebase")
        ELSE RenderProjectWide("Found snippets in the codebase", all_search_results,
                               root)

RECURSIVE RemoveSuffixParen_All(_)
\* code_str with every trailing ")" removed, as code_str.rstrip(")") would
RemoveSuffixParen_All(code_str) ==
    IF EndsWith(code_str, <<")">>)
    THEN RemoveSuffixParen_All(SubSeq(code_str, 1, Len(code_str) - 1))
    ELSE code_str

\* code_str.removesuffix(")")
RemoveSuffixParen(code_str) ==
    IF EndsWith(code_str, <<")">>) THEN SubSeq(code_str, 1, Len(code_str) - 1)
    ELSE code_str

\* search_code_in_file(code_str, file_name)
SearchCodeInFile(cmi, mi, parsed, root, code_str, file_name) ==
    LET stripped == RemoveSuffixParen(code_str)
        candidate_java_files == CandidateFiles(parsed, file_name)
        all_search_results == CodeResults(cmi, mi, candidate_java_files, stripped)
    IN  IF candidate_java_files = <<>> THEN Failure("Could not find file in the codebase")
        ELSE IF all_search_results = <<>> THEN Failure("Could not find code in file")
        ELSE IF Len(all_search_results) > RESULT_SHOW_LIMIT
        THEN Success("Found snippets in file", all_search_results, <<>>,
                     CollapseToMethodLevel(all_search_results, root))
        ELSE Success("Found snippets in file", all_search_results,
                     RenderAll(all_search_results, root), <<>>)

-----------------------------------------------------------------------------
(* Skeleton, repository structure, snippet retrieval *)

\* a line of the skeleton: what it renders (a declaration header, a member
\* signature, "}" or the empty line) and the names rendered on it
SkeletonLine(line, name, throws) == [line |-> line, name |-> name, throws |-> throws]

\* the member lines with the body of every member that has one rendered below
\* its signature, for enums too
SkeletonMembers_WithBodies(d) ==
    LET shown == SelectSeq(d.body,
                     LAMBDA m : m.kind \in {"method", "constructor", "field"})
    IN  Concat([n \in 1..Len(shown) |->
                   <<SkeletonLine(shown[n].kind, shown[n].name, <<>>)>>
                   \o (IF shown[n].body THEN <<[line |-> "statement"]>> ELSE <<>>)])

\* [const.name for const in node.body.constants]
EnumConstants(d) ==
    LET constants == SelectSeq(d.body, LAMBDA m : m.kind = "constant")
    IN  [n \in 1..Len(constants) |-> constants[n].name]

\* the member lines extract_class_skeleton renders for one declaration: for a
\* class one signature line per method, constructor and field, for an interface
\* one per method, without its throws clause, for an enum the constants on one line
SkeletonMembers(d) ==
    IF d.kind = "enum"
    THEN IF EnumConstants(d) = <<>> THEN <<>>
         ELSE <<[line |-> "constants", names |-> EnumConstants(d)]>>
    ELSE LET shown == SelectSeq(d.body,
                         LAMBDA m : \/ d.kind = "class"
                                       /\ m.kind \in {"method", "constructor", "field"}
                                    \/ d.kind = "interface" /\ m.kind = "method")
         IN  [n \in 1..Len(shown) |->
                 SkeletonLine(shown[n].kind, shown[n].name,
                              IF d.kind = "class" THEN shown[n].throws ELSE <<>>)]

\* "[throw.name for throw in member.throws]" is reached for a method or
\* constructor of a class that has a throws clause; the elements of
\* member.throws are strings and have no attribute "name"
ThrowsRendered(d) ==
    /\ d.kind = "class"
    /\ \E n \in 1..Len(d.body) : /\ d.body[n].kind \in {"method", "constructor"}
                                 /\ d.body[n].throws # <<>>

\* java_search_utils.extract_class_skeleton(file_path): an "Error ..." string, an
\* exception, or the rendered lines: per declaration in walk order its header,
\* its member lines, "}" and an empty line.  The files hold no package or
\* import line that javalang accepts.
ExtractSkeleton(file_path) ==
    LET f == FileAt(file_path)
    IN  IF ~Readable(file_path)
        THEN [error |-> "Error reading file", raised |-> None, lines |-> <<>>]
        ELSE IF f.parse # "ok"
        THEN [error |-> "Error parsing Java file", raised |-> None, lines |-> <<>>]
        ELSE IF \E n \in 1..Len(f.decls) : ThrowsRendered(f.decls[n])
        THEN [error |-> None, raised |-> "AttributeError", lines |-> <<>>]
        ELSE [error |-> None, raised |-> None,
              lines |-> Concat([n \in 1..Len(f.decls) |->
                                   <<SkeletonLine(f.decls[n].kind, f.decls[n].name, <<>>)>>
                                   \o SkeletonMembers(f.decls[n])
                                   \o <<[line |-> "}"], [line |-> ""]>>])]

\* an operation that ends by an exception reaching its caller
Raised(exception) == [raised |-> exception]

\* JavaSearchManager.extract_class_skeleton(file_name)
ExtractClassSkeleton(parsed, file_name) ==
    LET candidate_java_abs_paths == CandidateFiles(parsed, file_name)
    IN  IF candidate_java_abs_paths = <<>>
        THEN [success |-> FALSE, message |-> "Could not find file in the codebase",
              error |-> None, file |-> None, skeleton |-> <<>>]
        ELSE LET file_path == candidate_java_abs_paths[1]
                 skeleton == ExtractSkeleton(file_path)
             IN  IF skeleton.raised # None THEN Raised(skeleton.raised)
                 ELSE IF skeleton.error # None
                 THEN [success |-> FALSE, message |-> "Failed to extract skeleton",
                       error |-> skeleton.error, file |-> file_path,
                       skeleton |-> <<>>]
                 ELSE [success |-> TRUE, message |-> "Class skeleton extracted",
                       error |-> None, file |-> file_path,
                       skeleton |-> skeleton.lines]

\* excluded of get_repo_structure.build_tree
TreeExcluded ==
    { <<".", "g", "i", "t">>, <<".", "i", "d", "e", "a">>,
      <<".", "v", "s", "c", "o", "d", "e">>, <<"b", "u", "i", "l", "d">>,
      <<"t", "a", "r", "g", "e", "t">>, <<"b", "i", "n">>, <<"o", "u", "t">>,
      <<"n", "o", "d", "e", "_", "m", "o", "d", "u", "l", "e", "s">>,
      <<".", "g", "r", "a", "d", "l", "e">>,
      <<"_", "_", "p", "y", "c", "a", "c", "h", "e", "_", "_">>,
      <<"t", "e", "s", "t", "-", "d", "a", "t", "a">>,
      <<"g", "e", "n", "e", "r", "a", "t", "e", "d">> }

\* the characters of the names on disk, in code point order: Python compares the
\* names, which are str, character by character
CodePoints ==
    << "-", ".",
       "A", "B", "C", "D", "E", "F", "G", "H", "I", "J", "K", "L", "M",
       "N", "O", "P", "Q", "R", "S", "T", "U", "V", "W", "X", "Y", "Z",
       "_",
       "a", "b", "c", "d", "e", "f", "g", "h", "i", "j", "k", "l", "m",
       "n", "o", "p", "q", "r", "s", "t", "u", "v", "w", "x", "y", "z" >>

\* ord(ch)
Ord(ch) == CHOOSE n \in 1..Len(CodePoints) : CodePoints[n] = ch

RECURSIVE NameBefore(_, _)
\* a < b for two names
NameBefore(a, b) ==
    IF b = <<>> THEN FALSE
    ELSE IF a = <<>> THEN TRUE
    ELSE IF Head(a) = Head(b) THEN NameBefore(Tail(a), Tail(b))
    ELSE Ord(Head(a)) < Ord(Head(b))

\* what is on disk under the root, each directory and file as its segments from
\* the root: the files are those the glob returns
DiskEntries(files, root) ==
    UNION {{SubSeq(Segments(files[n], root), 1, k) :
              k \in 1..Len(Segments(files[n], root))} : n \in 1..Len(files)}

\* item.is_dir()
IsDir(entries, item) ==
    \E e \in entries : Len(e) > Len(item) /\ SubSeq(e, 1, Len(item)) = item

\* path.iterdir()
IterDir(entries, path) ==
    {e \in entries : Len(e) = Len(path) + 1 /\ SubSeq(e, 1, Len(path)) = path}

\* the sort key (not x.is_dir(), x.name) of x is below that of y
KeyBefore(entries, x, y) ==
    IF IsDir(entries, x) # IsDir(entries, y) THEN IsDir(entries, x)
    ELSE NameBefore(x[Len(x)], y[Len(y)])

RECURSIVE Sorted(_, _)
\* sorted(items, key=...)
Sorted(entries, items) ==
    IF items = {} THEN <<>>
    ELSE LET first == CHOOSE x \in items :
                        \A y \in items \ {x} : KeyBefore(entries, x, y)
         IN  <<first>> \o Sorted(entries, items \ {first})

\* one line of the tree: prefix, then the connector, then the name of the entry at
\* path, then "/" for a directory; the box-drawing characters are written in ASCII
TreeLine(prefix, connector, path, dir) ==
    [prefix |-> prefix, connector |-> connector, path |-> path, dir |-> dir]

\* a walk during which no directory fails to be listed
NoFault == [dir |-> <<>>, error |-> "none"]

\* path.iterdir() raising error for directory dir: "PermissionError", or "OSError"
\* for any other error of the filesystem (the directory was removed, an I/O error)
Fault(dir, error) == [dir |-> dir, error |-> error]

\* an exception on its way out of build_tree, in place of the lines
RaisedLine(error) == [raised |-> error]

\* an exception left build_tree
Raises(lines) == \E n \in 1..Len(lines) : "raised" \in DOMAIN lines[n]

RECURSIVE BuildTree(_, _, _, _, _, _)
RECURSIVE BuildItems(_, _, _, _, _, _, _)
\* the loop of build_tree over the items left
BuildItems(entries, fault, max_depth, items, n, prefix, depth) ==
    IF n > Len(items) THEN <<>>
    ELSE LET item == items[n]
             is_last == n = Len(items)
             current_prefix == IF is_last THEN "+-- " ELSE "|-- "
             next_prefix == Append(prefix, IF is_last THEN "    " ELSE "|   ")
             lines ==
               IF IsDir(entries, item)
               THEN <<TreeLine(prefix, current_prefix, item, TRUE)>>
                    \o BuildTree(entries, fault, max_depth, item, next_prefix,
                                 depth + 1)
               ELSE IF EndsWith(item[Len(item)], JavaExt)
                    THEN <<TreeLine(prefix, current_prefix, item, FALSE)>>
                    ELSE <<>>
         IN  lines \o BuildItems(entries, fault, max_depth, items, n + 1, prefix,
                                 depth)

\* build_tree(path, prefix, depth) of get_repo_structure: listing the directory
\* comes first inside the try, so that a PermissionError leaves no line of it and
\* is passed over, while any other error leaves the function
BuildTree(entries, fault, max_depth, path, prefix, depth) ==
    IF depth > max_depth THEN <<>>
    ELSE IF fault.error = "PermissionError" /\ fault.dir = path THEN <<>>
    ELSE IF fault.error # "none" /\ fault.dir = path
         THEN <<RaisedLine(fault.error)>>
    ELSE LET items == SelectSeq(Sorted(entries, IterDir(entries, path)),
                                LAMBDA item : item[Len(item)] \notin TreeExcluded)
         IN  BuildItems(entries, fault, max_depth, items, 1, prefix, depth)

\* get_repo_structure(max_depth): the line of the root, then the tree below it;
\* an exception that left build_tree is turned into the failure answer
GetRepoStructure(files, ci, parsed, root, max_depth, fault) ==
    LET lines == BuildTree(DiskEntries(files, root), fault, max_depth, <<>>, <<>>, 0)
    IN  IF Raises(lines)
        THEN [success |-> FALSE,
              message |-> "Error generating repository structure",
              error |-> (CHOOSE e \in {"PermissionError", "OSError"} :
                            RaisedLine(e) \in Range(lines)),
              tree |-> <<>>]
        ELSE [success |-> TRUE,
              tree |-> <<TreeLine(<<>>, "", <<>>, TRUE)>> \o lines,
              java_file_count |-> Len(parsed), class_count |-> Len(ci)]

\* retrieve_code_snippet(file_path, start_line, end_line)
RetrieveCodeSnippet(file_path, start_line, end_line) ==
    GetCodeSnippets(file_path, start_line, end_line)

-----------------------------------------------------------------------------
(* The arguments the callers pass *)

\* class names asked for: indexed ones (Color has no indexed method), one differing
\* in case only, a missing one
ClassArgs == {"Foo", "foo", "Inner", "Color", "Missing"}

\* method names asked for
MethodArgs == {"bar", "baz", "foo", "area"}

\* file names asked for: Foo.java, a/Foo.java, Many.java, Bad.java, Sh.java, .java
FileArgs ==
    { <<"F", "o", "o">> \o JavaExt,
      <<"a", "/", "F", "o", "o">> \o JavaExt,
      <<"M", "a", "n", "y">> \o JavaExt,
      <<"B", "a", "d">> \o JavaExt,
      <<"S", "h">> \o JavaExt,
      JavaExt }

\* snippets asked for
CodeArgs == { <<"x">>, <<"b", "(", ")">>, <<"b", "(">>, <<"q">>, <<"(", ")", ")">> }

\* depths asked for
DepthArgs == {0, 1, 2, 100}

\* what may go wrong with the filesystem during one walk of the tree: nothing, or
\* the root or the directory c failing to be listed
FaultArgs ==
    {NoFault} \cup {Fault(dir, error) : dir \in {<<>>, << <<"c">> >>},
                                       error \in {"PermissionError", "OSError"}}

\* the files that may stop being readable while the engine is in use
Perishable == {FooA.path}

\* line ranges asked for
RangeArgs == { <<1, 1>>, <<2, 2>>, <<2, 3>>, <<1, 30>> }

-----------------------------------------------------------------------------
(* The query operations as actions: any caller, any time after construction *)

\* construction is over and no answer is waiting to be taken
Idle == pc = "ready" /\ last = NoQuery

\* what a query leaves alone besides the indices
Frame == <<project_path, disk, pc, build_vars, lost>>

\* the record of a query: the operation, its arguments, what it returned
Answered(op, a1, a2, out) == [op |-> op, a1 |-> a1, a2 |-> a2, out |-> out]

FindClass ==
    /\ Idle
    /\ \E class_name \in ClassArgs :
         last' = Answered("findClass", class_name, None,
                          SearchClass(class_index, project_path, class_name))
    /\ UNCHANGED <<Frame, self_vars>>

FindClassInFile ==
    /\ Idle
    /\ \E class_name \in ClassArgs, file_name \in FileArgs :
         last' = Answered("findClassInFile", class_name, file_name,
                          SearchClassInFile(class_index, parsed_files, project_path,
                                            class_name, file_name))
    /\ UNCHANGED <<Frame, self_vars>>

FindMethod ==
    /\ Idle
    /\ \E method_name \in MethodArgs :
         LET r == SearchMethod(class_index, class_method_index, method_index,
                               project_path, method_name)
         IN  /\ last' = Answered("findMethod", method_name, None, r.out)
             /\ class_method_index' = r.cmi
    /\ UNCHANGED <<Frame, class_index, method_index, parsed_files>>

FindMethodInClass ==
    /\ Idle
    /\ \E method_name \in MethodArgs, class_name \in ClassArgs :
         LET r == SearchMethodInClassApi(class_index, class_method_index,
                                         project_path, method_name, class_name)
         IN  /\ last' = Answered("findMethodInClass", method_name, class_name, r.out)
             /\ class_method_index' = r.cmi
    /\ UNCHANGED <<Frame, class_index, method_index, parsed_files>>

FindMethodInFile ==
    /\ Idle
    /\ \E method_name \in MethodArgs, file_name \in FileArgs :
         LET r == SearchMethodInFile(class_index, class_method_index, method_index,
                                     parsed_files, project_path, method_name,
                                     file_name)
         IN  /\ last' = Answered("findMethodInFile", method_name, file_name, r.out)
             /\ class_method_index' = r.cmi
    /\ UNCHANGED <<Frame, class_index, method_index, parsed_files>>

FindCode ==
    /\ Idle
    /\ \E code_str \in CodeArgs :
         last' = Answered("findCode", code_str, None,
                          SearchCode(class_method_index, method_index, parsed_files,
                                     project_path, code_str))
    /\ UNCHANGED <<Frame, self_vars>>

FindCodeInFile ==
    /\ Idle
    /\ \E code_str \in CodeArgs, file_name \in FileArgs :
         last' = Answered("findCodeInFile", code_str, file_name,
                          SearchCodeInFile(class_method_index, method_index,
                                           parsed_files, project_path, code_str,
                                           file_name))
    /\ UNCHANGED <<Frame, self_vars>>

ExtractClassSkeletonQuery ==
    /\ Idle
    /\ \E file_name \in FileArgs :
         last' = Answered("extractClassSkeleton", file_name, None,
                          ExtractClassSkeleton(parsed_files, file_name))
    /\ UNCHANGED <<Frame, self_vars>>

RepoStructure ==
    /\ Idle
    /\ \E max_depth \in DepthArgs, fault \in FaultArgs :
         last' = Answered("repoStructure", max_depth, fault,
                          GetRepoStructure(disk, class_index, parsed_files,
                                           project_path, max_depth, fault))
    /\ UNCHANGED <<Frame, self_vars>>

RetrieveSnippet ==
    /\ Idle
    /\ \E n \in 1..Len(Universe), r \in RangeArgs :
         last' = Answered("retrieveSnippet", Universe[n].path, r,
                          [text |-> RetrieveCodeSnippet(Universe[n].path, r[1], r[2])])
    /\ UNCHANGED <<Frame, self_vars>>

\* outside the engine: a file of the project stops being readable (removed, or
\* its permissions changed) while the engine is in use
LoseFile ==
    /\ Idle
    /\ \E file_path \in Range(parsed_files) \cap Perishable :
         /\ file_path \notin lost
         /\ lost' = lost \cup {file_path}
    /\ UNCHANGED <<project_path, disk, pc, build_vars, self_vars, last>>

\* the caller takes the answer; the engine waits for the next query
Return ==
    /\ pc = "ready"
    /\ last # NoQuery
    /\ last' = NoQuery
    /\ UNCHANGED <<Frame, self_vars>>

Query ==
    \/ FindClass
    \/ FindClassInFile
    \/ FindMethod
    \/ FindMethodInClass
    \/ FindMethodInFile
    \/ FindCode
    \/ FindCodeInFile
    \/ ExtractClassSkeletonQuery
    \/ RepoStructure
    \/ RetrieveSnippet

Next == Discover \/ IndexFile \/ UpdateIndices \/ Query \/ Return \/ LoseFile

Spec == Init /\ [][Next]_vars

-----------------------------------------------------------------------------
(* Properties *)

\* the number of elements of s that satisfy Test
CountIf(s, Test(_)) == Len(SelectSeq(s, Test))

\* the declarations named c that the parser reports in file f
DeclsNamed(f, c) == SelectSeq(f.decls, LAMBDA d : d.name = c)

\* the number of methods and constructors named m in the declarations named c of f
MembersDeclared(f, c, m) ==
    CountIf(Concat([n \in 1..Len(DeclsNamed(f, c)) |-> DeclsNamed(f, c)[n].body]),
            LAMBDA x : x.kind \in {"method", "constructor"} /\ x.name = m)

\* the entries of a list index under key that lie in file
EntriesIn(index, key, file) ==
    IF HasKey(index, key) THEN SelectSeq(Get(index, key), LAMBDA e : e.file = file)
    ELSE <<>>

\* the entries of a class-method index under (c, m) that lie in file
MethodEntriesIn(index, c, m, file) ==
    IF HasKey(index, c) THEN EntriesIn(Get(index, c), m, file) ELSE <<>>

\* the files of the entries of an index (of lists)
FilesOf(index) ==
    UNION {{index[n].v[e].file : e \in 1..Len(index[n].v)} : n \in 1..Len(index)}

\* the files of the entries of a class-method index
FilesOf2(index) == UNION {FilesOf(index[n].v) : n \in 1..Len(index)}

\* a file parse_java_file returns None for: unreadable, or rejected by both parses
FailsParsing(path) == ~FileAt(path).readable \/ FileAt(path).parse = "fail"

\* C1: after construction every declaration of every parsed file has its own
\* ClassIndex entry under its name, and every method and constructor of every
\* such declaration has its own ClassMethodIndex entry under (class name, member
\* name), also when declarations share a name inside one file
C1_EveryDeclarationAndMemberIndexed ==
    pc = "ready" =>
        \A n \in 1..Len(parsed_files) :
            LET f == FileAt(parsed_files[n])
            IN  \A d \in Range(f.decls) :
                    /\ Len(EntriesIn(class_index, d.name, f.path))
                           = Len(DeclsNamed(f, d.name))
                    /\ \A x \in Range(d.body) :
                           x.kind \in {"method", "constructor"} =>
                               Len(MethodEntriesIn(class_method_index, d.name, x.name,
                                                   f.path))
                                   = MembersDeclared(f, d.name, x.name)

\* C2: a file whose parse fails, or that cannot be read, has no entry in any of
\* the three indices and is not in the parsed-file list, during and after
\* construction; the files the loop has passed that do parse are all in the
\* parsed-file list with one ClassIndex entry per declaration
C2_FailedFileContributesNothing ==
    /\ \A n \in 1..Len(java_files) :
           FailsParsing(java_files[n]) =>
               /\ java_files[n] \notin FilesOf(b_class_index) \cup FilesOf(class_index)
               /\ java_files[n] \notin FilesOf2(b_class_method_index)
                                          \cup FilesOf2(class_method_index)
               /\ java_files[n] \notin FilesOf(b_method_index) \cup FilesOf(method_index)
               /\ ~InList(java_files[n], parsed_java_files)
               /\ ~InList(java_files[n], parsed_files)
    /\ pc = "indexing" =>
           /\ failed_count = CountIf(SubSeq(java_files, 1, pos - 1), FailsParsing)
           /\ parsed_java_files
                  = SelectSeq(SubSeq(java_files, 1, pos - 1),
                              LAMBDA p : ~FailsParsing(p))
    /\ pc = "ready" =>
           \A n \in 1..Len(java_files) :
               ~FailsParsing(java_files[n]) =>
                   /\ InList(java_files[n], parsed_files)
                   /\ \A d \in Range(FileAt(java_files[n]).decls) :
                          Len(EntriesIn(class_index, d.name, java_files[n]))
                              = Len(DeclsNamed(FileAt(java_files[n]), d.name))

\* C2 witness: construction is over, a file failed, and a file after it is indexed
C2_Witness ==
    /\ pc = "ready"
    /\ failed_count > 0
    /\ \E n \in 1..Len(java_files) :
           /\ FailsParsing(java_files[n])
           /\ \E k \in (n + 1)..Len(java_files) :
                  java_files[k] \in FilesOf(class_index)

\* C3: once construction is over, whatever queries have been answered, the three
\* indices and the parsed-file list equal the values construction ended with
C3_QueriesLeaveIndicesUnchanged ==
    pc = "ready" =>
        /\ class_index = b_class_index
        /\ class_method_index = b_class_method_index
        /\ method_index = b_method_index
        /\ parsed_files = parsed_java_files

\* C3 witness: a method that is not indexed was asked for in a class that is
C3_Witness ==
    /\ last.op = "findMethodInClass"
    /\ last.a1 = "baz"
    /\ last.a2 = "Foo"
    /\ HasKey(class_method_index, "Foo")
    /\ ~last.out.success

RECURSIVE SumCounts(_)
\* the sum of the match counts of a collapsed listing
SumCounts(listing) ==
    IF listing = <<>> THEN 0 ELSE Head(listing).count + SumCounts(Tail(listing))

\* two result lists hold the same results the same number of times
SameResults(a, b) ==
    /\ Len(a) = Len(b)
    /\ \A r \in Range(a) \cup Range(b) :
           CountIf(a, LAMBDA x : x = r) = CountIf(b, LAMBDA x : x = r)

\* the results in list order are those of the index entries in list order
OnePerEntry(matches, entries, class_name, method_name) ==
    /\ Len(matches) = Len(entries)
    /\ \A n \in 1..Len(entries) :
           /\ matches[n].file_path = entries[n].file
           /\ matches[n].class_name = class_name
           /\ matches[n].method_name = method_name

\* every match is rendered in full, in order, with its code body, and nothing is
\* collapsed
AllInFull(out) ==
    /\ Len(out.full) = Len(out.matches)
    /\ \A n \in 1..Len(out.matches) :
           /\ out.full[n].file = RelPath(out.matches[n].file_path, project_path)
           /\ out.full[n].code = out.matches[n].code
    /\ out.collapsed = <<>>

\* the matches are listed per file with their counts only, and no code body
CollapsedToFiles(out) ==
    /\ out.full = <<>>
    /\ out.collapsed # <<>>
    /\ SumCounts(out.collapsed) = Len(out.matches)
    /\ \A n \in 1..Len(out.collapsed) :
           /\ out.collapsed[n].count
                  = CountIf(out.matches,
                            LAMBDA x : RelPath(x.file_path, project_path)
                                           = out.collapsed[n].file)
           /\ \A k \in 1..Len(out.collapsed) :
                  out.collapsed[k].file = out.collapsed[n].file => k = n

\* C4: for a class name that is a key of ClassIndex, findClass succeeds with one
\* result per recorded entry, in order; the count in the header is the number of
\* entries; in the collapsed form the per-file counts sum to it
C4_FindClassReturnsEveryEntryOnce ==
    (last.op = "findClass" /\ HasKey(class_index, last.a1)) =>
        LET entries == Get(class_index, last.a1)
        IN  /\ last.out.success
            /\ last.out.count = Len(entries)
            /\ OnePerEntry(last.out.matches, entries, last.a1, None)
            /\ AllInFull(last.out) \/ CollapsedToFiles(last.out)

\* C4 witness: a class with two entries in one file and others elsewhere was found
C4_Witness ==
    /\ last.op = "findClass"
    /\ last.out.success
    /\ last.out.count > RESULT_SHOW_LIMIT
    /\ \E n \in 1..Len(last.out.collapsed) : last.out.collapsed[n].count = 2

\* C5: for a class name that is no key of ClassIndex, under exact comparison of
\* the names, findClass returns success=false with the not-found text
C5_FindClassFailsOnAbsentName ==
    (last.op = "findClass" /\ \A n \in 1..Len(class_index) : class_index[n].k # last.a1)
        => /\ ~last.out.success
           /\ last.out.message = "Could not find class in the codebase"
           /\ last.out.matches = <<>>

\* C5 witness: foo was asked for where only Foo is indexed
C5_Witness ==
    /\ last.op = "findClass"
    /\ last.a1 = "foo"
    /\ HasKey(class_index, "Foo")
    /\ ~last.out.success

\* C6: a whole-project search (findClass, findMethod, findCode) with n matches
\* renders each of them with its code body and nothing collapsed when n <= 3, and
\* a collapsed count listing without any code body when n > 3
C6_TruncationAtThree ==
    (last.op \in {"findClass", "findMethod", "findCode"} /\ last.out.success) =>
        /\ last.out.count = Len(last.out.matches)
        /\ Len(last.out.matches) <= 3 => AllInFull(last.out)
        /\ Len(last.out.matches) > 3 => CollapsedToFiles(last.out)

\* C6 witness: exactly four classes share the name asked for
C6_Witness ==
    /\ last.op = "findClass"
    /\ last.out.success
    /\ Len(Get(class_index, last.a1)) = 4
    /\ last.out.full = <<>>

\* the ClassMethodIndex entries under (class_name, method_name)
MethodEntriesUnder(class_name, method_name) ==
    IF HasKey(class_method_index, class_name)
       /\ HasKey(Get(class_method_index, class_name), method_name)
    THEN Get(Get(class_method_index, class_name), method_name)
    ELSE <<>>

\* C7: findMethodInClass(name, className) fails with 'class not found' when
\* className is no key of ClassIndex; else fails with 'method not found in class'
\* when the class has no method of that name; else succeeds with one match per
\* ClassMethodIndex entry under (className, name)
C7_FindMethodInClassOutcomes ==
    last.op = "findMethodInClass" =>
        LET entries == MethodEntriesUnder(last.a2, last.a1)
        IN  IF ~HasKey(class_index, last.a2)
            THEN /\ ~last.out.success
                 /\ last.out.message = "Could not find class in the codebase"
            ELSE IF entries = <<>>
            THEN /\ ~last.out.success
                 /\ last.out.message = "Could not find method in class"
            ELSE /\ last.out.success
                 /\ last.out.count = Len(entries)
                 /\ OnePerEntry(last.out.matches, entries, last.a2, last.a1)

\* C7 witness: bar of Foo, overloaded and declared in classes Foo of two files
C7_Witness ==
    /\ last.op = "findMethodInClass"
    /\ last.a1 = "bar"
    /\ last.a2 = "Foo"
    /\ last.out.success
    /\ last.out.count >= 3
    /\ \E n, k \in 1..Len(last.out.matches) :
           last.out.matches[n].file_path # last.out.matches[k].file_path

\* what findMethod(method_name) is to return: a result per MethodIndex entry, then
\* a result per ClassMethodIndex entry under a class name of ClassIndex
ExpectedMethodResults(method_name) ==
    LET entries ==
            SelectSeq(TopLevelEntries(method_index),
                      LAMBDA e : e.method_name = method_name)
            \o SelectSeq(MethodEntries(class_method_index),
                         LAMBDA e : /\ e.method_name = method_name
                                    /\ HasKey(class_index, e.class_name))
    IN  [n \in 1..Len(entries) |->
            JavaSearchResult(entries[n].file, entries[n].class_name, method_name,
                GetCodeSnippets(entries[n].file, entries[n].range.start,
                                entries[n].range.end))]

\* C8: findMethod(name) returns the union of the MethodIndex entries for name and
\* the ClassMethodIndex entries for (class, name) over the class names of
\* ClassIndex, each entry once; free-method results come first; it fails if and
\* only if the union is empty
C8_FindMethodReturnsUnion ==
    last.op = "findMethod" =>
        LET expected == ExpectedMethodResults(last.a1)
            matches == last.out.matches
        IN  /\ SameResults(matches, expected)
            /\ \A n, k \in 1..Len(matches) :
                   (n < k /\ matches[n].class_name # None) =>
                       matches[k].class_name # None
            /\ last.out.success <=> expected # <<>>
            /\ last.out.count = Len(expected)

\* C8 witness: bar was found while several classes share the name Foo
C8_Witness ==
    /\ last.op = "findMethod"
    /\ last.a1 = "bar"
    /\ last.out.success
    /\ Len(Get(class_index, "Foo")) >= 2
    /\ last.out.count >= 2

\* C9: findClassInFile(name, fileSuffix) fails with file-not-found when no parsed
\* file ends with fileSuffix; else fails with a class-not-found text when no
\* ClassIndex entry for name lies in a matching file; else succeeds with exactly
\* the ClassIndex entries for name that lie in the matching files
C9_FindClassInFileOutcomes ==
    last.op = "findClassInFile" =>
        LET matching == {p \in Range(parsed_files) : EndsWith(p, last.a2)}
            entries == IF HasKey(class_index, last.a1)
                       THEN SelectSeq(Get(class_index, last.a1),
                                      LAMBDA e : e.file \in matching)
                       ELSE <<>>
        IN  IF matching = {}
            THEN /\ ~last.out.success
                 /\ last.out.message = "Could not find file in the codebase"
            ELSE IF entries = <<>>
            THEN /\ ~last.out.success
                 /\ last.out.message \in {"Could not find class in the codebase",
                                          "Could not find class in file"}
            ELSE /\ last.out.success
                 /\ last.out.count = Len(entries)
                 /\ OnePerEntry(last.out.matches, entries, last.a1, None)
                 /\ AllInFull(last.out)

\* C9 witness: the suffix matched two files, and the class was found in both
C9_Witness ==
    /\ last.op = "findClassInFile"
    /\ last.out.success
    /\ \E n, k \in 1..Len(last.out.matches) :
           last.out.matches[n].file_path # last.out.matches[k].file_path

\* C10: findMethodInFile(name, fileSuffix) returns the findMethod(name) results
\* whose file is a parsed file ending with fileSuffix, succeeds if and only if
\* there is one, and renders every one of them in full, however many there are
C10_FindMethodInFileIntersects ==
    last.op = "findMethodInFile" =>
        LET expected ==
                SelectSeq(ExpectedMethodResults(last.a1),
                          LAMBDA r : /\ InList(r.file_path, parsed_files)
                                     /\ EndsWith(r.file_path, last.a2))
        IN  /\ SameResults(last.out.matches, expected)
            /\ last.out.success <=> expected # <<>>
            /\ last.out.success =>
                   /\ last.out.count = Len(expected)
                   /\ AllInFull(last.out)

\* C10 witness: more than three methods of the name lie in the file asked for
C10_Witness ==
    /\ last.op = "findMethodInFile"
    /\ last.out.success
    /\ last.out.count > RESULT_SHOW_LIMIT
    /\ Len(last.out.full) = last.out.count


\* ---------------------------------------------------------------------------
\* Code search
\* ---------------------------------------------------------------------------

RECURSIVE CountOccurrences(_, _)
\* how many times the characters of code_str occur in text, reading from the
\* left and never counting a character twice
CountOccurrences(text, code_str) ==
    IF Len(text) < Len(code_str) \/ text = <<>> THEN 0
    ELSE IF SubSeq(text, 1, Len(code_str)) = code_str
    THEN 1 + CountOccurrences(SubSeq(text, Max(Len(code_str), 1) + 1, Len(text)),
                              code_str)
    ELSE CountOccurrences(Tail(text), code_str)

\* the matches of an answer that lie in file
MatchesIn(out, file) == SelectSeq(out.matches, LAMBDA r : r.file_path = file)

\* what the file holds for a reader now: nothing once it cannot be opened
ContentNow(file) == IF Readable(file) THEN FileAt(file).text ELSE <<>>

RECURSIVE SumOver(_, _, _)
\* CountOccurrences added up over files[n..]
SumOver(files, code_str, n) ==
    IF n > Len(files) THEN 0
    ELSE CountOccurrences(ContentNow(files[n]), code_str)
         + SumOver(files, code_str, n + 1)

\* C11: findCode(snippet) yields exactly one result per literal occurrence of
\* the snippet in each parsed file, the snippet being matched character by
\* character; the reported count is the number of occurrences over all parsed
\* files, and the occurrences of one file are never merged into one result.
C11_FindCodeOneResultPerOccurrence ==
    last.op = "findCode" =>
        LET total == SumOver(parsed_files, last.a1, 1)
        IN  /\ \A f \in Range(parsed_files) :
                 Len(MatchesIn(last.out, f))
                     = CountOccurrences(ContentNow(f), last.a1)
            /\ \A n \in 1..Len(last.out.matches) :
                 InList(last.out.matches[n].file_path, parsed_files)
            /\ last.out.success = (total > 0)
            /\ last.out.count = total

\* findCode answered with two results from one file, both on one line, and with
\* two results from one file, on different lines
C11_Witness ==
    /\ last.op = "findCode"
    /\ last.a1 = <<"x">>
    /\ Len(MatchesIn(last.out, FooB.path)) = 2
    /\ Len(MatchesIn(last.out, FooA.path)) = 2

\* the (file, 1-indexed line) of every occurrence of code_str in files, in the
\* order the results are collected
OccurrenceLines(files, code_str) ==
    Concat([n \in 1..Len(files) |->
        LET searched == GetCodeRegionContainingCode(files[n], code_str)
        IN  [k \in 1..Len(searched) |->
                [file |-> files[n], line |-> searched[k].start_line + 1]]])

\* the snippet a code query searches for
SearchedSnippet == IF last.op = "findCodeInFile" THEN RemoveSuffixParen(last.a1)
                   ELSE last.a1

\* the files a code query searches in
SearchedFiles == IF last.op = "findCodeInFile" THEN CandidateFiles(parsed_files, last.a2)
                 ELSE parsed_files

\* the indexed methods whose entry is in file and contains line
MethodsContaining(file, line) ==
    {e \in Range(MethodEntries(class_method_index) \o TopLevelEntries(method_index)) :
        e.file = file /\ e.range.start <= line /\ line <= e.range.end}

LineCount(text) ==
    IF text = <<>> THEN 0
    ELSE Cardinality({k \in 1..Len(text) : text[k] = "\n"})
         + (IF text[Len(text)] = "\n" THEN 0 ELSE 1)

\* the characters of the 1-indexed line i of text, without its terminator
LineOf(text, i) ==
    LET at == {p \in 1..Len(text) :
                  /\ text[p] # "\n"
                  /\ Cardinality({k \in 1..p : text[k] = "\n"}) = i - 1}
    IN  [n \in 1..Cardinality(at) |->
            text[(CHOOSE p \in at : \A q \in at : p <= q) + n - 1]]

\* the smaller of a and b
Min(a, b) == IF a <= b THEN a ELSE b

\* lines lo..hi of text, in order, one per line
LinesJoined(text, lo, hi) ==
    JoinWith(<<"\n">>, [i \in 1..(hi - lo + 1) |-> LineOf(text, lo + i - 1)])

\* C13: the code of every findCode and findCodeInFile result, for an occurrence
\* whose first character is on the 1-indexed line L of a file of n lines, is
\* exactly the lines max(1, L - 5) to min(n, L + 5) of that file, in order.
C13_ContextIsFiveLinesAround ==
    last.op \in {"findCode", "findCodeInFile"} =>
        LET occ == OccurrenceLines(SearchedFiles, SearchedSnippet)
        IN  /\ Len(last.out.matches) = Len(occ)
            /\ \A n \in 1..Len(occ) :
                 LET text == FileAt(occ[n].file).text
                 IN  last.out.matches[n].code
                         = LinesJoined(text, Max(1, occ[n].line - 5),
                                       Min(LineCount(text), occ[n].line + 5))

\* findCode answered with an occurrence that has more than five lines before it
\* and with an occurrence that has more than five lines after it
C13_Witness ==
    /\ last.op = "findCode"
    /\ LET occ == OccurrenceLines(parsed_files, last.a1)
       IN  /\ \E n \in 1..Len(occ) : occ[n].line - 5 > 1
           /\ \E n \in 1..Len(occ) :
                occ[n].line + 5 < LineCount(FileAt(occ[n].file).text)
           /\ Len(last.out.matches) = Len(occ)

\* snippet without its last character when that is ")", snippet otherwise
WithoutOneParen(snippet) ==
    IF snippet # <<>> /\ snippet[Len(snippet)] = ")"
    THEN [n \in 1..(Len(snippet) - 1) |-> snippet[n]]
    ELSE snippet

\* the results findCode collects for snippet that lie in a file ending with suffix
FindCodeResultsUnder(snippet, suffix) ==
    SelectSeq(CodeResults(class_method_index, method_index, parsed_files, snippet),
              LAMBDA r : EndsWith(r.file_path, suffix))

\* the answer of findCodeInFile(snippet, suffix) on the indices as they are
CodeInFileAnswer(snippet, suffix) ==
    SearchCodeInFile(class_method_index, method_index, parsed_files, project_path,
                     snippet, suffix)

\* C14: findCodeInFile(snippet, fileSuffix) finds exactly the occurrences
\* findCode finds for the snippet with one trailing ")" removed, in the parsed
\* files whose path ends with fileSuffix; so asking for t + ")" and asking for
\* t, t not ending in ")", give the same matches, and at most one ")" is removed.
C14_FindCodeInFileDropsOneParen ==
    last.op = "findCodeInFile" =>
        /\ last.out.matches
               = FindCodeResultsUnder(WithoutOneParen(last.a1), last.a2)
        /\ last.out.count = Len(last.out.matches)
        /\ (last.a1 # <<>> /\ last.a1[Len(last.a1)] # ")") =>
              CodeInFileAnswer(Append(last.a1, ")"), last.a2) = last.out

\* findCodeInFile answered for "())": only "()" is searched, which the files
\* searched hold once, while "(" occurs in more places of them
C14_Witness ==
    /\ last.op = "findCodeInFile"
    /\ last.a1 = <<"(", ")", ")">>
    /\ last.out.success
    /\ Len(last.out.matches) = 1
    /\ Len(FindCodeResultsUnder(<<"(">>, last.a2)) > 1

\* ---------------------------------------------------------------------------
\* Faults
\* ---------------------------------------------------------------------------

\* the operation came back to its caller with a value
Returned == "raised" \notin DOMAIN last.out

\* the file extractClassSkeleton works on: the first parsed one ending with the
\* suffix asked for
SkeletonFile == CandidateFiles(parsed_files, last.a1)[1]

\* C15: every public query operation returns to its caller and never raises; an
\* expected not-found outcome is a triple with success = false, and a fault met
\* during the operation (a file that became unreadable, a re-parse that fails,
\* an exception while rendering) comes back as a failure triple with the error
\* text.
C15_EveryOperationReturns ==
    last.op # "none" =>
        /\ Returned
        /\ (last.op = "findClass" /\ ~ClassIndexed(class_index, last.a1)) =>
               ~last.out.success
        /\ (/\ last.op = "extractClassSkeleton"
            /\ CandidateFiles(parsed_files, last.a1) # <<>>
            /\ \/ ~Readable(SkeletonFile)
               \/ FileAt(SkeletonFile).parse # "ok") =>
               ~last.out.success /\ last.out.error # None

\* the 1-indexed line i of text with its terminator, when it has one
LineWithTerminator(text, i) ==
    LineOf(text, i)
        \o (IF Cardinality({k \in 1..Len(text) : text[k] = "\n"}) >= i
            THEN <<"\n">> ELSE <<>>)

\* C16: for a readable file of n lines and 1 <= start <= end <= n,
\* retrieveSnippet returns the lines start..end of the file, terminators kept,
\* one after the other and nothing else; for a file that cannot be read it
\* returns the empty string.
C16_RetrieveSnippetReturnsTheLines ==
    last.op = "retrieveSnippet" =>
        LET text == FileAt(last.a1).text
            start == last.a2[1]
            end == last.a2[2]
        IN  /\ Returned
            /\ ~Readable(last.a1) => last.out.text = <<>>
            /\ (Readable(last.a1) /\ 1 <= start /\ start <= end
                    /\ end <= LineCount(text)) =>
                   last.out.text
                       = Concat([i \in 1..(end - start + 1) |->
                                    LineWithTerminator(text, start + i - 1)])

\* retrieveSnippet answered for lines 2..3 of a readable file that has a line
\* before and a line after them
C16_Witness ==
    /\ last.op = "retrieveSnippet"
    /\ Readable(last.a1)
    /\ last.a2 = <<2, 3>>
    /\ LineCount(FileAt(last.a1).text) > 3
    /\ last.out.text # <<>>

\* ---------------------------------------------------------------------------
\* Skeletons
\* ---------------------------------------------------------------------------

\* the positions of the declaration headers in the lines of a skeleton
HeaderPositions(lines) ==
    {n \in 1..Len(lines) : lines[n].line \in {"class", "interface", "enum"}}

\* the lines a skeleton renders below the header at position h, up to the next
\* header
LinesBelow(lines, h) ==
    LET later == {n \in HeaderPositions(lines) : n > h}
        next == IF later = {} THEN Len(lines) + 1
                ELSE CHOOSE n \in later : \A k \in later : n <= k
    IN  SubSeq(lines, h + 1, next - 1)

\* the names of the methods and constructors a declaration holds, in order
MethodsAndConstructors(d) ==
    LET ms == SelectSeq(d.body, LAMBDA m : m.kind \in {"method", "constructor"})
    IN  [n \in 1..Len(ms) |-> [line |-> ms[n].kind, name |-> ms[n].name]]

\* the k-th declaration header of a skeleton, counted from the top
HeaderAt(lines, k) ==
    CHOOSE h \in HeaderPositions(lines) :
        Cardinality({n \in HeaderPositions(lines) : n <= h}) = k

C18_SkeletonOfFirstMatchingFile ==
    last.op = "extractClassSkeleton" =>
        IF CandidateFiles(parsed_files, last.a1) = <<>>
        THEN /\ Returned
             /\ ~last.out.success
             /\ last.out.message = "Could not find file in the codebase"
        ELSE /\ Returned
             /\ last.out.file = SkeletonFile
             /\ last.out.success
                    = (Readable(SkeletonFile) /\ FileAt(SkeletonFile).parse = "ok")
             /\ last.out.success =>
                    /\ last.out.skeleton # <<>>
                    /\ \A n \in HeaderPositions(last.out.skeleton) :
                         \E k \in 1..Len(FileAt(SkeletonFile).decls) :
                             FileAt(SkeletonFile).decls[k].name
                                 = last.out.skeleton[n].name


-----------------------------------------------------------------------------
(* C19, C20: the project tree *)

\* the directories and files get_repo_structure listed below the root
Listed == {last.out.tree[n].path : n \in 2..Len(last.out.tree)}

\* what is on disk under the project root
OnDisk == DiskEntries(disk, project_path)

\* the files on disk, each with its place below the root
SourceFiles == {disk[n] : n \in 1..Len(disk)}

\* the files on disk that lie in or below directory d
FilesThrough(d) ==
    {f \in SourceFiles :
        /\ Len(Segments(f, project_path)) > Len(d)
        /\ SubSeq(Segments(f, project_path), 1, Len(d)) = d}

\* C19: repoStructure, walking without an error of the filesystem, applies the
\* exclusion set and rule of FileDiscoverer: within
\* the depth limit a source file is in the rendered tree if and only if
\* FileDiscoverer returns it for the same root, and a directory is omitted from
\* the tree exactly when FileDiscoverer excludes every path through it.
C19_TreeExcludesAsDiscoverer ==
    (pc = "ready" /\ last.op = "repoStructure" /\ last.a2 = NoFault) =>
        /\ \A f \in SourceFiles :
             Len(Segments(f, project_path)) <= last.a1 =>
                 (Segments(f, project_path) \in Listed
                      <=> f \in Range(FindJavaFiles(disk, project_path)))
        /\ \A d \in OnDisk :
             (IsDir(OnDisk, d) /\ Len(d) <= last.a1) =>
                 (d \notin Listed
                      <=> \A f \in FilesThrough(d) :
                              f \notin Range(FindJavaFiles(disk, project_path)))

\* the lines of the tree that stand for entries of one directory
Siblings(tree, i, j) ==
    /\ Len(tree[i].path) = Len(tree[j].path)
    /\ SubSeq(tree[i].path, 1, Len(tree[i].path) - 1)
           = SubSeq(tree[j].path, 1, Len(tree[j].path) - 1)

\* no name on the way to entry e is one build_tree filters out
TreeKeeps(e) == \A k \in 1..Len(e) : e[k] \notin TreeExcluded

\* C20: repoStructure(maxDepth), walking without an error of the filesystem, the
\* root counting as depth 0 and its direct
\* children as depth 1, lists no directory or file deeper than maxDepth, lists
\* every non-excluded directory and source file at depth at most maxDepth, and
\* lists the entries of a directory with the directories before the files and each
\* group in name order.
C20_TreeLimitedToMaxDepth ==
    (pc = "ready" /\ last.op = "repoStructure" /\ last.a2 = NoFault) =>
        /\ \A e \in Listed : Len(e) <= last.a1
        /\ \A e \in OnDisk : (TreeKeeps(e) /\ Len(e) <= last.a1) => e \in Listed
        /\ \A i, j \in 2..Len(last.out.tree) :
             (i < j /\ Siblings(last.out.tree, i, j)) =>
                 \/ last.out.tree[i].dir /\ ~last.out.tree[j].dir
                 \/ /\ last.out.tree[i].dir = last.out.tree[j].dir
                    /\ NameBefore(last.out.tree[i].path[Len(last.out.tree[i].path)],
                                  last.out.tree[j].path[Len(last.out.tree[j].path)])


\* build_tree is called on directory dir during the walk answered last
Walked(dir) ==
    /\ dir = <<>> \/ IsDir(OnDisk, dir)
    /\ Len(dir) <= last.a1
    /\ TreeKeeps(dir)

\* C21: when an error of the filesystem occurs while repoStructure walks the tree
\* (a directory that cannot be listed for lack of permission, a directory removed
\* during the walk, any other I/O error), the operation returns success = false
\* with the error text: it does not raise, and it does not return success = true
\* for a tree it could not read in full.
C21_WalkErrorIsReported ==
    (pc = "ready" /\ last.op = "repoStructure"
        /\ last.a2.error # "none" /\ Walked(last.a2.dir)) =>
        /\ Returned
        /\ ~last.out.success
        /\ last.out.error = last.a2.error


-----------------------------------------------------------------------------
(* C22, C23: discovery *)

\* a segment of the absolute path holds one of the excluded names
ExcludedBySegment(file) ==
    \E name \in Range(SplitPathFrom(file, <<>>)), part \in ExcludedDirs :
        Contains(name, part)

\* C22: FileDiscoverer returns exactly the files with the .java extension found
\* recursively under the root whose absolute path has no segment, directory name
\* or file name, that contains build, target, bin, out, test-data or generated as
\* a substring: a file is left out if and only if it has such a segment.
C22_DiscoveredIffNoExcludedSegment ==
    pc # "new" =>
        /\ Range(java_files)
               = {f \in SourceFiles : EndsWith(f, JavaExt) /\ ~ExcludedBySegment(f)}
        /\ \A i, j \in 1..Len(java_files) : java_files[i] = java_files[j] => i = j


\* the enumerations the filesystem may give of the tree that is on disk
Enumerations == {listing \in Listings : Range(listing) = SourceFiles}

\* C23: the output order of FileDiscoverer is deterministic: for a fixed tree,
\* discovery returns the files in the same sequence whatever order the filesystem
\* enumerates the directory entries in, and so the parsed-file list has the same
\* order on every construction.
C23_DiscoveryOrderDeterministic ==
    \A listing \in Enumerations :
        /\ pc # "new" => java_files = FindJavaFiles(listing, project_path)
        /\ pc = "ready" =>
               parsed_files = SelectSeq(FindJavaFiles(listing, project_path),
                                        LAMBDA f : ~FailsParsing(f))


-----------------------------------------------------------------------------
(* C24: the end line of a declaration *)

\* the lines of the direct members of d that have a position
PositionedLines(d) == {d.body[n].line : n \in {k \in 1..Len(d.body) : d.body[k].line # 0}}

\* the largest line of a non-empty set of lines
Largest(lines) == CHOOSE x \in lines : \A y \in lines : y <= x

\* C24: for every indexed class, interface and enum declaration the recorded end
\* line is the largest line among the declaration's direct members that have a
\* position, and the last line of the file when the declaration has no such
\* member; the rule is the same for the three kinds of declaration.
C24_EndLineIsLastMemberLine ==
    pc = "ready" =>
        \A n \in 1..Len(parsed_files) :
            LET f == FileAt(parsed_files[n])
            IN  \A d \in Range(f.decls) :
                    \E e \in Range(EntriesIn(class_index, d.name, f.path)) :
                        /\ e.range.start = d.line
                        /\ e.range.end = IF PositionedLines(d) # {}
                                         THEN Largest(PositionedLines(d))
                                         ELSE Len(SplitLines(f.text))


-----------------------------------------------------------------------------
(* C25: the file tag *)

\* the path of file relative to the directory root: what is left of the absolute
\* path once the root and the one separator after it are removed
RelativeTo(file, root) ==
    LET dir == IF root[Len(root)] = "/" THEN root ELSE Append(root, "/")
    IN  SubSeq(file, Len(dir) + 1, Len(file))

\* C25: in every rendered result and in every line of a collapsed listing the file
\* tag holds exactly the path of the result's file relative to the project root,
\* whether the root given at construction ends with a path separator or not.
C25_FileTagIsRelativePath ==
    (last.op # "none" /\ "full" \in DOMAIN last.out) =>
        /\ \A n \in 1..Len(last.out.full) :
             last.out.full[n].file
                 = RelativeTo(last.out.matches[n].file_path, project_path)
        /\ \A n \in 1..Len(last.out.collapsed) :
             \E m \in Range(last.out.matches) :
                 last.out.collapsed[n].file = RelativeTo(m.file_path, project_path)


-----------------------------------------------------------------------------
(* C27: findMethodInClass beyond the display limit *)

\* the smaller of two numbers
Smaller(a, b) == IF a <= b THEN a ELSE b

\* the matches after the first RESULT_SHOW_LIMIT
MatchesBeyondLimit(out) == Slice(out.matches, RESULT_SHOW_LIMIT, Len(out.matches))

\* C27: findMethodInClass with n matches renders the first min(n, 3) of them, in
\* index order, with their code bodies; when n > 3 the other n - 3 are listed in
\* a collapsed listing per file, without code bodies; every match is thus reported
\* once, in full or in the collapsed part, and the count of the header is n.
C27_FindMethodInClassShowsThreeThenCollapses ==
    (last.op = "findMethodInClass" /\ last.out.success) =>
        LET out == last.out
            n == Len(out.matches)
        IN  /\ out.count = n
            /\ OnePerEntry(out.matches, MethodEntriesUnder(last.a2, last.a1),
                           last.a2, last.a1)
            /\ Len(out.full) = Smaller(n, 3)
            /\ \A k \in 1..Len(out.full) :
                   /\ out.full[k].code = out.matches[k].code
                   /\ out.full[k].file = RelPath(out.matches[k].file_path, project_path)
                   /\ out.full[k].method = out.matches[k].method_name
            /\ n <= 3 => out.collapsed = <<>>
            /\ n > 3 =>
                   /\ SumCounts(out.collapsed) = n - 3
                   /\ \A k \in 1..Len(out.collapsed) :
                          /\ "code" \notin DOMAIN out.collapsed[k]
                          /\ out.collapsed[k].count
                                 = CountIf(MatchesBeyondLimit(out),
                                           LAMBDA x : RelPath(x.file_path, project_path)
                                                          = out.collapsed[k].file)
                          /\ \A j \in 1..Len(out.collapsed) :
                                 out.collapsed[j].file = out.collapsed[k].file => j = k
            /\ Len(out.full) + SumCounts(out.collapsed) = n

\* C27 witness: five matches, three shown in full and two collapsed, in two files
C27_Witness ==
    /\ last.op = "findMethodInClass"
    /\ last.out.success
    /\ Len(last.out.matches) = 5
    /\ Len(last.out.full) = 3
    /\ SumCounts(last.out.collapsed) = 2
    /\ Len(last.out.collapsed) = 2

-----------------------------------------------------------------------------
(* C28: the indices agree with each other *)

\* C28: in every state after construction every class name that is a key of
\* ClassMethodIndex is a key of ClassIndex, every file of an entry of ClassIndex,
\* ClassMethodIndex or MethodIndex is in the parsed-file list, and the parsed-file
\* list holds no file twice; findMethod, which goes through the keys of
\* ClassIndex, thus reaches every ClassMethodIndex entry of the name asked for.
C28_IndicesAgree ==
    pc = "ready" =>
        /\ \A n \in 1..Len(class_method_index) :
               HasKey(class_index, class_method_index[n].k)
        /\ FilesOf(class_index) \cup FilesOf2(class_method_index)
               \cup FilesOf(method_index) \subseteq Range(parsed_files)
        /\ \A i, j \in 1..Len(parsed_files) : parsed_files[i] = parsed_files[j] => i = j
        /\ last.op = "findMethod" =>
               \A n \in 1..Len(class_method_index) :
                   \A e \in Range(MethodEntriesUnder(class_method_index[n].k, last.a1)) :
                       \E m \in Range(last.out.matches) :
                           /\ m.file_path = e.file
                           /\ m.class_name = class_method_index[n].k
                           /\ m.method_name = last.a1

\* C28 witness: ClassIndex has a class without indexed method beside one with
\* methods, the parsed files are two, and findMethod found a method
C28_Witness ==
    /\ pc = "ready"
    /\ Len(parsed_files) = 2
    /\ Len(class_method_index) >= 2
    /\ Len(class_index) > Len(class_method_index)
    /\ last.op = "findMethod"
    /\ last.out.success

-----------------------------------------------------------------------------

(* C29: re-parsing an indexed file *)

\* C29: for every file of the parsed-file list that is as it was when indexed, the
\* operations that parse it again succeed: extractClassSkeleton with a suffix that
\* selects the file returns success = true, and findClass returns a non-empty
\* signature for each class indexed from it; so also for the files that were
\* indexed through the second parse, the package and import lines removed.
C29_ReparseOfIndexedFileSucceeds ==
    /\ (last.op = "extractClassSkeleton"
           /\ CandidateFiles(parsed_files, last.a1) # <<>>
           /\ SkeletonFile \notin lost) =>
            (Returned /\ last.out.success)
    /\ (last.op = "findClass" /\ last.out.success) =>
            \A m \in Range(last.out.matches) :
                m.file_path \notin lost => m.code # <<>>

-----------------------------------------------------------------------------

(* C30: discovery and the place of the root *)

\* the relative paths of a set of files of the tree of the directory root
RelativePaths(files, root) == {RelativeTo(file, root) : file \in files}

\* the tree the engine was built on, placed under the directory root
Placed(listing, root) ==
    LET dir == IF root[Len(root)] = "/" THEN root ELSE Append(root, "/")
    IN  [n \in 1..Len(listing) |-> dir \o RelativeTo(listing[n], project_path)]

\* C30: whether a source file is discovered depends only on its path relative to
\* the project root: an engine built on the same directory tree placed under
\* another root path discovers the same set of relative paths, whatever the names
\* of the directories of the root path are.
C30_DiscoveryDependsOnRelativePathOnly ==
    pc # "new" =>
        \A root \in Roots :
            RelativePaths(Range(FindJavaFiles(Placed(disk, root), root)), root)
                = RelativePaths(Range(java_files), project_path)

-----------------------------------------------------------------------------

(* shell_command_parser.py: ShellCommandParser.  A command string is modelled as
   the sequence of its blank-separated tokens, each token a sequence of
   characters; a normalized command is the sequence of its one or two words *)

Uppercase ==
    << "A", "B", "C", "D", "E", "F", "G", "H", "I", "J", "K", "L", "M",
       "N", "O", "P", "Q", "R", "S", "T", "U", "V", "W", "X", "Y", "Z" >>

Lowercase ==
    << "a", "b", "c", "d", "e", "f", "g", "h", "i", "j", "k", "l", "m",
       "n", "o", "p", "q", "r", "s", "t", "u", "v", "w", "x", "y", "z" >>

Digits == {"0", "1", "2", "3", "4", "5", "6", "7", "8", "9"}

\* word.lower()
Lower(word) ==
    [n \in 1..Len(word) |->
        IF word[n] \in Range(Uppercase)
        THEN Lowercase[CHOOSE k \in 1..Len(Uppercase) : Uppercase[k] = word[n]]
        ELSE word[n]]

\* word.isidentifier()
IsIdentifier(word) ==
    /\ word # <<>>
    /\ word[1] \notin Digits
    /\ \A n \in 1..Len(word) :
         word[n] \in Range(Uppercase) \cup Range(Lowercase) \cup Digits \cup {"_"}

\* the words used in the commands
Defects4j == <<"d", "e", "f", "e", "c", "t", "s", "4", "j">>
Ant == <<"a", "n", "t">>
Git == <<"g", "i", "t">>
TestWord == <<"t", "e", "s", "t">>
CompileWord == <<"c", "o", "m", "p", "i", "l", "e">>
CleanWord == <<"c", "l", "e", "a", "n">>
CompileTest == CompileWord \o <<".">> \o TestWord
AndAnd == <<"&", "&">>

\* TWO_TOKEN_COMMANDS
TWO_TOKEN_COMMANDS ==
    { Defects4j, Git,
      <<"d", "o", "c", "k", "e", "r">>, <<"n", "p", "m">>, <<"m", "v", "n">>,
      <<"g", "r", "a", "d", "l", "e">>, <<"c", "a", "r", "g", "o">>,
      <<"p", "i", "p">>, <<"c", "o", "n", "d", "a">>, <<"a", "p", "t">>,
      <<"a", "p", "t", "-", "g", "e", "t">>, <<"y", "u", "m">>,
      <<"b", "r", "e", "w">> }

\* the operators _parse_fallback splits at; bashlex makes operator, pipe and list
\* nodes of them
ShellOperators == { AndAnd, <<"|", "|">>, <<";">>, <<"|">> }

\* base.split('/')[-1]
AfterLastSlash(base) ==
    LET slashes == {n \in 1..Len(base) : base[n] = "/"}
    IN  IF slashes = {} THEN base
        ELSE SubSeq(base, (CHOOSE n \in slashes : \A k \in slashes : k <= n) + 1,
                    Len(base))

\* _normalize_command_tokens(tokens): "" is the empty sequence
NormalizeCommandTokens(tokens) ==
    IF tokens = <<>> THEN <<>>
    ELSE LET base == AfterLastSlash(Lower(tokens[1]))
         IN  IF /\ base \in TWO_TOKEN_COMMANDS
                /\ Len(tokens) > 1
                /\ Lower(tokens[2])[1] # "-"
             THEN <<base, Lower(tokens[2])>>
             ELSE <<base>>

\* the test for an environment variable assignment VAR=value
IsAssignmentWord(word) ==
    /\ "=" \in Range(word)
    /\ ~(Len(word) >= 2 /\ SubSeq(word, 1, 2) = <<"-", "-">>)
    /\ IsIdentifier(SubSeq(word, 1, (CHOOSE n \in 1..Len(word) :
                                        /\ word[n] = "="
                                        /\ \A k \in 1..(n - 1) : word[k] # "=") - 1))

RECURSIVE SplitAtOperators(_, _)
\* the token sequences between the operators, cur being the one read so far
SplitAtOperators(tokens, cur) ==
    IF tokens = <<>> THEN <<cur>>
    ELSE IF Head(tokens) \in ShellOperators
         THEN <<cur>> \o SplitAtOperators(Tail(tokens), <<>>)
    ELSE SplitAtOperators(Tail(tokens), Append(cur, Head(tokens)))

RECURSIVE RemoveHeredocs(_)
\* _remove_heredocs on one line: no closing delimiter follows on a line of its own,
\* so what stands from << on is removed
RemoveHeredocs(tokens) ==
    IF tokens = <<>> THEN <<>>
    ELSE IF Len(Head(tokens)) >= 2 /\ SubSeq(Head(tokens), 1, 2) = <<"<", "<">>
         THEN <<>>
    ELSE <<Head(tokens)>> \o RemoveHeredocs(Tail(tokens))

\* _extract_command_from_parts on the words of one command node: every word that
\* is an assignment is skipped
ExtractCommandFromParts(parts) ==
    NormalizeCommandTokens(SelectSeq(parts, LAMBDA word : ~IsAssignmentWord(word)))

RECURSIVE SkipAssignments(_)
\* the while loop of _extract_base_command_fallback
SkipAssignments(tokens) ==
    IF tokens # <<>> /\ IsAssignmentWord(Head(tokens))
    THEN SkipAssignments(Tail(tokens)) ELSE tokens

\* _extract_base_command_fallback(segment)
ExtractBaseCommandFallback(segment) == NormalizeCommandTokens(SkipAssignments(segment))

RECURSIVE Deduplicated(_, _)
\* the commands in order of first occurrence, seen being those passed
Deduplicated(commands, seen) ==
    IF commands = <<>> THEN <<>>
    ELSE IF Head(commands) \in seen THEN Deduplicated(Tail(commands), seen)
    ELSE <<Head(commands)>> \o Deduplicated(Tail(commands), seen \cup {Head(commands)})

\* _parse_with_bashlex(command_string, preserve_sequence): the command nodes of
\* the AST are the token sequences between the operators
ParseWithBashlex(tokens, preserve_sequence) ==
    LET nodes == SplitAtOperators(tokens, <<>>)
        commands == SelectSeq([n \in 1..Len(nodes) |-> ExtractCommandFromParts(nodes[n])],
                              LAMBDA cmd : cmd # <<>>)
    IN  IF preserve_sequence THEN commands ELSE Deduplicated(commands, {})

\* _parse_fallback(command_string, preserve_sequence)
ParseFallback(tokens, preserve_sequence) ==
    LET segments == SelectSeq(SplitAtOperators(tokens, <<>>), LAMBDA seg : seg # <<>>)
        commands == SelectSeq([n \in 1..Len(segments) |->
                                   ExtractBaseCommandFallback(segments[n])],
                              LAMBDA cmd : cmd # <<>>)
    IN  IF preserve_sequence THEN commands ELSE Deduplicated(commands, {})

\* parse_command(command_string, preserve_sequence) of a parser constructed with
\* use_bashlex
ParseCommand(use_bashlex, tokens, preserve_sequence) ==
    IF tokens = <<>> THEN <<>>
    ELSE IF use_bashlex THEN ParseWithBashlex(RemoveHeredocs(tokens), preserve_sequence)
    ELSE ParseFallback(RemoveHeredocs(tokens), preserve_sequence)

\* the default of preserve_sequence in the signature of parse_command
DefaultPreserveSequence == TRUE

\* the simple commands the callers chain
SimpleCommands ==
    { <<Defects4j, TestWord, <<"-", "t">>, <<"A">>>>,
      <<Defects4j, TestWord, <<"-", "t">>, <<"B">>>>,
      <<Defects4j, TestWord>>,
      <<Defects4j, CompileWord>>,
      <<Ant, CleanWord>>,
      <<Ant, CompileTest>>,
      <<<<"V", "=", "1">>, <<".", "/">> \o Git, <<"-", "v">>>>,
      <<<<"c", "a", "t">>, <<"<", "<", "E">>>> }

\* the longest chain of simple commands
MaxChain == 3

\* the chains of at most n simple commands joined by &&
RECURSIVE ChainsUpTo(_)
ChainsUpTo(n) ==
    IF n = 0 THEN {<<>>}
    ELSE LET shorter == ChainsUpTo(n - 1)
         IN  shorter \cup {IF c = <<>> THEN s ELSE c \o <<AndAnd>> \o s :
                               c \in shorter, s \in SimpleCommands}

\* the command strings passed to parse_command
CommandArgs == ChainsUpTo(MaxChain)

\* the state of a process that only uses the parser
InitParser ==
    /\ project_path = <<"/", "r">>
    /\ disk = <<>>
    /\ pc = "parser"
    /\ java_files = <<>>
    /\ pos = 1
    /\ b_class_index = <<>>
    /\ b_class_method_index = <<>>
    /\ b_method_index = <<>>
    /\ parsed_java_files = <<>>
    /\ failed_count = 0
    /\ class_index = <<>>
    /\ class_method_index = <<>>
    /\ method_index = <<>>
    /\ parsed_files = <<>>
    /\ lost = {}
    /\ last = NoQuery

\* a call of parse_command with the default arguments, or with preserve_sequence
\* given, on a parser constructed with or without bashlex
ParseCommandCall ==
    /\ pc = "parser"
    /\ last = NoQuery
    /\ \E use_bashlex \in BOOLEAN, command_string \in CommandArgs,
          preserve_sequence \in BOOLEAN :
         last' = Answered("parse_command", command_string,
                          [use_bashlex |-> use_bashlex,
                           preserve_sequence |-> preserve_sequence],
                          ParseCommand(use_bashlex, command_string, preserve_sequence))
    /\ UNCHANGED <<Frame, self_vars>>

\* the caller has taken the list
ReturnParsed ==
    /\ pc = "parser"
    /\ last # NoQuery
    /\ last' = NoQuery
    /\ UNCHANGED <<Frame, self_vars>>

NextParser == ParseCommandCall \/ ReturnParsed

SpecParser == InitParser /\ [][NextParser]_vars

\* C26: parse_command called with its default arguments returns each distinct
\* normalized command once, in order of first occurrence: a chain of several
\* "defects4j test ..." commands joined by && yields ["defects4j test"], and
\* "ant clean && ant compile.test && defects4j test" yields
\* ["ant", "defects4j test"].
C26_DefaultCallDeduplicates ==
    (last.op = "parse_command" /\ last.a2.preserve_sequence = DefaultPreserveSequence) =>
        /\ \A i, j \in 1..Len(last.out) : last.out[i] = last.out[j] => i = j
        /\ last.out = Deduplicated(ParseCommand(last.a2.use_bashlex, last.a1, TRUE), {})
        /\ last.a1 = <<Defects4j, TestWord, <<"-", "t">>, <<"A">>, AndAnd,
                       Defects4j, TestWord, <<"-", "t">>, <<"B">>>>
              => last.out = << <<Defects4j, TestWord>> >>
        /\ last.a1 = <<Ant, CleanWord, AndAnd, Ant, CompileTest, AndAnd,
                       Defects4j, TestWord>>
              => last.out = << <<Ant>>, <<Defects4j, TestWord>> >>
====
